---- MODULE Spec2Model ----
(***************************************************************************)
(* Cinematch data acquisition layer.                                       *)
(*                                                                         *)
(*   Spec        the crawl runner of scrapers/base_scraper.py: run(), the   *)
(*               extractor's calls of _get_soup and _save_to_database, the  *)
(*               scraped_movie_data, scraping_targets and scraping_logs     *)
(*               tables, with two scraper instances running concurrently.   *)
(*   SpecClient  the source clients of api_integrations/: one client        *)
(*               instance, its lookups against the live API and against     *)
(*               the rows of scraped_movie_data.                            *)
(*   SpecExtract the extractor strategies of wikipedia_scraper.py and       *)
(*               adult_content_scraper.py applied to the elements of a      *)
(*               parsed page, and the rows they save.                       *)
(*   SpecConstruct  scrapers constructed for ids a caller asks for, and     *)
(*               their passes.                                              *)
(*   SpecFetch   the passes of scrapers and the fetches of their pages, as  *)
(*               the caller sees them.                                      *)
(*   SpecNormalize  WikipediaScraper._process_data applied to film records. *)
(*   SpecCaps    the passes of a hub or film-lists scraper over the links   *)
(*               its strategy keeps.                                        *)
(*   SpecAdult   AdultContentScraper instances constructed for the rows a   *)
(*               target may have, and their passes.                         *)
(*   SpecConnections  the store connections the operations of one scraper   *)
(*               open and close.                                            *)
(*                                                                         *)
(* A Python dict is a sequence of <<key, value>> pairs in insertion order,  *)
(* a title is a sequence of characters, a timestamp is a reading of the     *)
(* logical clock `now`.  One database statement with its commit is one      *)
(* atomic step: PostgreSQL runs INSERT .. ON CONFLICT DO UPDATE, UPDATE and *)
(* INSERT atomically against the unique index the statement names.          *)
(***************************************************************************)
EXTENDS Integers, Sequences, FiniteSets, TLC

\* ---------------------------------------------------------------- bounds
\* run() invocations, over all scraper instances
MaxRuns == 2
\* _save_to_database calls, over all scraper instances
MaxSaves == 2
\* pages one scraper instance fetches
MaxPages == 1
\* writes to scraped_movie_data a source client sees
MaxRows == 3
\* records the extractor strategies hand to _save_to_database
MaxExtracted == 2

NULL == "NULL"

\* ------------------------------------------------------- dicts and titles
\* dict.get(key, default)
Get(d, k, default) ==
    IF \E i \in DOMAIN d : d[i][1] = k
    THEN d[CHOOSE i \in DOMAIN d : d[i][1] = k][2]
    ELSE default

Has(d, k) == \E i \in DOMAIN d : d[i][1] = k

\* The field values of a dict, whatever the insertion order of its keys.
ContentOf(d) == {d[i] : i \in DOMAIN d}

\* The keys the records of this model use, in the order sorted() gives them.
KeyOrder == <<"2020 gross", "Film", "Gross", "History", "Rank", "age_restriction", "award",
              "box_office", "box_office_data", "box_office_numeric", "budget",
              "budget_numeric", "category", "content", "content_warning", "data_type",
              "festival", "list_name", "poster", "price", "price_numeric", "region",
              "runtime", "runtime_minutes", "sections", "source", "source_site", "title",
              "trailer", "url", "wikipedia_link", "year">>

\* The fields whose value is itself a dict.
MappingFields == {"box_office_data", "sections"}

\* Titles: "Up", "up", "UP", "Ups".
T_Up == <<"U", "p">>
T_up == <<"u", "p">>
T_UP == <<"U", "P">>
T_Ups == <<"U", "p", "s">>
Titles == {T_Up, T_up, T_Ups}
Unknown == <<"U", "n", "k", "n", "o", "w", "n">>

\* ---------------------------------------------------------- raw records
\* A value json.dumps cannot serialize (a parsed-document node); in the records
\* of this model only the field "poster" holds one.
TagObject == <<"<", "T", "a", "g", ">">>

R_up == << <<"title", T_up>>, <<"data_type", "film_details">> >>
\* the same fields as R_up, inserted in the other order
R_up_reordered == << <<"data_type", "film_details">>, <<"title", T_up>> >>
\* R_up with one more field
R_up_2009 == << <<"title", T_up>>, <<"data_type", "film_details">>, <<"year", "2009">> >>
\* a record holding a value that is not serializable
R_tag == << <<"title", T_up>>, <<"poster", TagObject>> >>

RawRecords == {R_up, R_up_reordered, R_up_2009, R_tag}

Serializable(data) == ~Has(data, "poster")

\* sorted(d.items()): the pairs of one dict in key order
SortKeys(d) ==
    LET present == SelectSeq(KeyOrder, LAMBDA k : Has(d, k))
    IN  [i \in DOMAIN present |-> <<present[i], Get(d, present[i], NULL)>>]

\* Mutant: only the keys of the outer dict are sorted.
json_dumps_sorting_outer_keys(data, sort_keys) ==
    IF sort_keys THEN SortKeys(data) ELSE data

\* json.dumps(data, sort_keys=...): the text lists the pairs in insertion
\* order, or with sort_keys the pairs of every dict, nested ones included, in
\* key order.
json_dumps(data, sort_keys) ==
    IF sort_keys
    THEN SortKeys([i \in DOMAIN data |->
                      IF data[i][1] \in MappingFields
                      THEN <<data[i][1], SortKeys(data[i][2])>>
                      ELSE data[i]])
    ELSE data

\* hashlib.sha256(text).hexdigest(): one digest per text.
sha256(text) == <<"sha256", text>>

\* Mutant: the hash covers the key columns only.
data_hash_of_key_fields(data) ==
    sha256(<< <<"data_type", Get(data, "data_type", "general")>>,
              <<"title", Get(data, "title", Unknown)>> >>)

data_hash(data) == sha256(json_dumps(data, TRUE))

\* BaseScraper._process_data: the base class returns the record as it is.
_process_data(raw_data) == raw_data

\* ------------------------------------------------------------- the store
\* The columns of the unique index named by ON CONFLICT.
KeyOf(row) == <<row.source_site, row.movie_title, row.data_type, row.data_hash>>

\* The row _save_to_database sends for `data`, written at time ts.
RowFor(name, data, ts) ==
    [source_site    |-> name,
     movie_title    |-> Get(data, "title", Unknown),
     year           |-> Get(data, "year", NULL),
     data_type      |-> Get(data, "data_type", "general"),
     raw_data       |-> json_dumps(data, FALSE),
     processed_data |-> json_dumps(_process_data(data), FALSE),
     data_hash      |-> data_hash(data),
     scraped_at     |-> ts]

\* Mutant: a plain INSERT against a table without the unique index.
InsertAlways(rows, row) == rows \cup {row}

\* Mutant: DO UPDATE also overwrites the payload columns.
UpsertReplacing(rows, row) ==
    {r \in rows : KeyOf(r) # KeyOf(row)} \cup {row}

\* INSERT .. ON CONFLICT (source_site, movie_title, data_type, data_hash)
\* DO UPDATE SET scraped_at = CURRENT_TIMESTAMP
Upsert(rows, row) ==
    IF \E r \in rows : KeyOf(r) = KeyOf(row)
    THEN {IF KeyOf(r) = KeyOf(row) THEN [r EXCEPT !.scraped_at = row.scraped_at] ELSE r
          : r \in rows}
    ELSE rows \cup {row}

\* ---------------------------------------------------------------- state
Scrapers == {"s1", "s2"}
TargetIds == {1, 2}

\* scraping_targets.name
TargetName(id) == IF id = 1 THEN "Wikipedia Box Office" ELSE "Wikipedia Film Hub"

\* The row SELECT * FROM scraping_targets WHERE id = %s yields for a target of
\* the Wikipedia extractor, as a dict.
TargetRow(id) == << <<"name", TargetName(id)>>, <<"scraping_rules", <<>> >> >>

VARIABLES
    \* --- the database
    scraped_movie_data,     \* set of rows
    scraping_logs,          \* sequence of rows, in insertion order
    last_scraped,           \* scraping_targets.last_scraped, by target id
    now,                    \* the clock
    \* --- a scraper instance
    target_id,              \* self.target_id
    self_class,             \* the class of the instance
    target_config,          \* self.target_config
    self_pages_scraped,     \* self.pages_scraped
    self_records_extracted, \* self.records_extracted
    \* --- run(): its position and its locals
    pc,
    status,
    pages_scraped,
    records_extracted,
    errors,
    outcome,                \* how the latest run() ended: returned or raised;
                            \* a returned mapping holds the locals above
    \* --- history
    runs,                   \* run() invocations started, by scraper
    saves,                  \* _save_to_database calls made, by scraper
    returned,               \* the passes whose run() returned its mapping
    touchedBy,              \* the passes that changed last_scraped, and when
    upserted,               \* the upserts that committed, by unique key
    \* --- a source client
    client,                 \* the client instance
    lookup,                 \* the latest lookup of the client and its result
    \* --- the caller of a scraper
    called,                 \* its latest call of a scraper and the result
    \* --- a strategy
    locals,                 \* the locals of the strategy of the latest pass
    connections             \* store connections the scrapers' operations left open

dbVars == <<scraped_movie_data, scraping_logs, last_scraped, now>>
scraperVars == <<target_id, self_class, target_config, self_pages_scraped, self_records_extracted>>
runVars == <<pc, status, pages_scraped, records_extracted, errors, outcome>>
historyVars == <<runs, saves, returned, touchedBy, upserted>>
clientVars == <<client, lookup>>
vars == <<dbVars, scraperVars, runVars, historyVars, clientVars, called, locals,
          connections>>

Never == 0
NoClient == [kind |-> "none"]
NoLookup == [op |-> "none"]

\* The sum of a counter over the scraper instances.
RECURSIVE SumOver(_, _)
SumOver(f, S) ==
    IF S = {} THEN 0
    ELSE LET x == CHOOSE x \in S : TRUE IN f[x] + SumOver(f, S \ {x})

Total(f) == SumOver(f, Scrapers)

\* The pass a scraper is in: its instance and the number of its run().
Pass(s) == <<s, runs[s]>>

\* BaseScraper.__init__ for a target of the registry (_load_target_config
\* found its row), and the subclasses' counters set to 0.
NoCall == [op |-> "none"]
NoLocals == [strategy |-> "none", pass |-> <<"none", 0>>]

Init ==
    /\ scraped_movie_data = {}
    /\ scraping_logs = <<>>
    /\ last_scraped = [t \in TargetIds |-> Never]
    /\ now = 1
    /\ target_id = [s \in Scrapers |-> 1]
    /\ self_class = [s \in Scrapers |-> "WikipediaScraper"]
    /\ target_config = [s \in Scrapers |-> TargetRow(1)]
    /\ self_pages_scraped = [s \in Scrapers |-> 0]
    /\ self_records_extracted = [s \in Scrapers |-> 0]
    /\ pc = [s \in Scrapers |-> "idle"]
    /\ status = [s \in Scrapers |-> "success"]
    /\ pages_scraped = [s \in Scrapers |-> 0]
    /\ records_extracted = [s \in Scrapers |-> 0]
    /\ errors = [s \in Scrapers |-> <<>>]
    /\ outcome = [s \in Scrapers |-> "none"]
    /\ runs = [s \in Scrapers |-> 0]
    /\ saves = [s \in Scrapers |-> 0]
    /\ returned = {}
    /\ touchedBy = {}
    /\ upserted = {}
    /\ client = NoClient
    /\ lookup = NoLookup
    /\ called = NoCall
    /\ locals = NoLocals
    /\ connections = 0


\* ------------------------------------------------- the scraper's primitives
\* Where an operation on the store ends: it returns ("none"), or raises
\* before psycopg2.connect, in it, in execute, in commit, or because fetchone
\* found no row.
FailurePlaces(db) ==
    CASE db = "ok" -> {"none"}
      [] db = "connect_fails" -> {"connect"}
      [] db = "execute_fails" -> {"execute"}
      [] db = "fails" -> {"connect", "execute", "commit"}

\* Mutant: conn.close() is the last statement of the try block.
LeftOpenWithoutFinally(place) ==
    IF place \in {"execute", "commit", "not_found"} THEN 1 ELSE 0

\* conn = psycopg2.connect(..); try: .. finally: conn.close(): the connections
\* the operation leaves open when it ends at `place`.
LeftOpen(place) ==
    LET opened == IF place \in {"before_connect", "connect"} THEN 0 ELSE 1
        closed == opened
    IN  opened - closed

\* The operation ends at one of `places`.
Connects(places) == \E place \in places : connections' = connections + LeftOpen(place)

\* base_scraper.py imports the module time (line 6), and the module time has
\* no attribute uniform: line 73 raises before any request is sent.
time_has_uniform == FALSE

\* _get_soup(url), `http` being what session.get and raise_for_status would do.
_get_soup(http) ==
    IF ~time_has_uniform THEN "AttributeError"
    ELSE IF http = "ok" THEN "soup"
    ELSE "RequestException"

\* _save_to_database(data) against the rows `rows` at time ts; `db` is what the
\* database does.  raised: the exception that leaves the method, or NULL;
\* ret: the value returned.
_save_to_database(rows, name, data, db, ts) ==
    IF ~Serializable(data)
    THEN [raised |-> "TypeError", ret |-> NULL, rows |-> rows]
    ELSE IF db = "connect_fails"
    THEN [raised |-> "OperationalError", ret |-> NULL, rows |-> rows]
    ELSE IF db = "execute_fails"
    THEN [raised |-> NULL, ret |-> "False", rows |-> rows]
    ELSE [raised |-> NULL, ret |-> "True", rows |-> Upsert(rows, RowFor(name, data, ts))]

\* Mutant: the failed pass is logged in the except block and again in finally.
LogTwiceWhenFailed(logs, row, db) ==
    IF db = "fails"
    THEN [raised |-> "OperationalError", logs |-> logs]
    ELSE [raised |-> NULL,
          logs |-> IF row.status = "failed" THEN logs \o <<row, row>> ELSE Append(logs, row)]

\* _log_scraping_activity: one INSERT into scraping_logs, or the exception of
\* connect, execute or commit.
_log_scraping_activity(logs, row, db) ==
    IF db = "fails"
    THEN [raised |-> "OperationalError", logs |-> logs]
    ELSE [raised |-> NULL, logs |-> Append(logs, row)]

\* ------------------------------------------------------------------ run()
\* Lines 193-197 and the call of scrape().
RunStart(s) ==
    /\ pc[s] = "idle"
    /\ Total(runs) < MaxRuns
    /\ runs' = [runs EXCEPT ![s] = @ + 1]
    /\ pages_scraped' = [pages_scraped EXCEPT ![s] = 0]
    /\ records_extracted' = [records_extracted EXCEPT ![s] = 0]
    /\ errors' = [errors EXCEPT ![s] = <<>>]
    /\ status' = [status EXCEPT ![s] = "success"]
    /\ outcome' = [outcome EXCEPT ![s] = "running"]
    /\ pc' = [pc EXCEPT ![s] = "scraping"]
    /\ UNCHANGED <<dbVars, target_id, self_class, target_config, self_pages_scraped, self_records_extracted,
                   saves, returned, touchedBy, upserted, clientVars, called, locals, connections>>

\* Mutant: the timestamp update sits in the finally block.
RunExceptTouching(s, message) ==
    /\ errors' = [errors EXCEPT ![s] = Append(@, message)]
    /\ status' = [status EXCEPT ![s] = "failed"]
    /\ pc' = [pc EXCEPT ![s] = "log"]
    /\ last_scraped' = [last_scraped EXCEPT ![target_id[s]] = now]
    /\ touchedBy' = touchedBy \cup {[pass |-> Pass(s), at |-> now]}

\* The except block of run(), lines 208-212.
RunExcept(s, message) ==
    /\ errors' = [errors EXCEPT ![s] = Append(@, message)]
    /\ status' = [status EXCEPT ![s] = "failed"]
    /\ pc' = [pc EXCEPT ![s] = "log"]
    /\ UNCHANGED <<last_scraped, touchedBy>>

\* Mutant: an exception of any fetch leaves the strategy.
FetchPageAborting(s, kind, http) ==
    /\ pc[s] = "scraping"
    /\ self_pages_scraped[s] < MaxPages
    /\ LET soup == _get_soup(http)
       IN  IF soup = "soup"
           THEN /\ self_pages_scraped' = [self_pages_scraped EXCEPT ![s] = @ + 1]
                /\ UNCHANGED <<runVars, last_scraped, touchedBy>>
           ELSE /\ RunExcept(s, soup)
                /\ UNCHANGED <<self_pages_scraped, pages_scraped, records_extracted, outcome>>
    /\ UNCHANGED <<scraped_movie_data, scraping_logs, now, target_id, self_class, target_config,
                   self_records_extracted, runs, saves, returned, upserted, clientVars, locals, connections>>

\* A strategy fetches a page: the target's base URL, whose fetch no strategy
\* guards, or a secondary page, fetched inside try/except.
FetchPage(s, kind, http) ==
    /\ pc[s] = "scraping"
    /\ self_pages_scraped[s] < MaxPages
    /\ LET soup == _get_soup(http)
       IN  IF soup = "soup"
           THEN /\ self_pages_scraped' = [self_pages_scraped EXCEPT ![s] = @ + 1]
                /\ UNCHANGED <<runVars, last_scraped, touchedBy>>
           ELSE IF kind = "secondary"
           THEN UNCHANGED <<self_pages_scraped, runVars, last_scraped, touchedBy>>
           ELSE /\ RunExcept(s, soup)
                /\ UNCHANGED <<self_pages_scraped, pages_scraped, records_extracted, outcome>>
    /\ UNCHANGED <<scraped_movie_data, scraping_logs, now, target_id, self_class, target_config,
                   self_records_extracted, runs, saves, returned, upserted, clientVars, locals, connections>>

\* The extractor fetches a page.
ExtractorFetch(s, kind, http) == FetchPage(s, kind, http) /\ UNCHANGED called

\* The upserts that committed: per unique key the row as first inserted, the
\* time of the latest upsert and the scrapers that wrote it.
Committed(s, row) ==
    IF \E u \in upserted : u.key = KeyOf(row)
    THEN {IF u.key = KeyOf(row)
          THEN [u EXCEPT !.ts = row.scraped_at, !.writers = @ \cup {s}]
          ELSE u : u \in upserted}
    ELSE upserted \cup {[key |-> KeyOf(row), first |-> row, ts |-> row.scraped_at,
                         writers |-> {s}]}

\* The extractor saves one record and counts it; `guarded` strategies call
\* _save_to_database inside the try/except of their loop over candidates.
ExtractorSave(s, data, db, guarded) ==
    /\ pc[s] = "scraping"
    /\ Total(saves) < MaxSaves
    /\ saves' = [saves EXCEPT ![s] = @ + 1]
    /\ LET r == _save_to_database(scraped_movie_data, TargetName(target_id[s]), data, db, now)
       IN  /\ scraped_movie_data' = r.rows
           /\ now' = IF r.ret = "True" THEN now + 1 ELSE now
           /\ upserted' = IF r.ret = "True"
                          THEN Committed(s, RowFor(TargetName(target_id[s]), data, now))
                          ELSE upserted
           /\ IF r.raised = NULL
              THEN /\ self_records_extracted' = [self_records_extracted EXCEPT ![s] = @ + 1]
                   /\ UNCHANGED <<runVars, last_scraped, touchedBy>>
              ELSE IF guarded
              THEN UNCHANGED <<self_records_extracted, runVars, last_scraped, touchedBy>>
              ELSE /\ RunExcept(s, r.raised)
                   /\ UNCHANGED <<self_records_extracted, pages_scraped, records_extracted,
                                  outcome>>
    /\ Connects(IF Serializable(data) THEN FailurePlaces(db) ELSE {"before_connect"})
    /\ UNCHANGED <<scraping_logs, target_id, self_class, target_config, self_pages_scraped, runs, returned,
                   clientVars, called, locals>>

\* scrape() raises while it reads the parsed page.
ExtractorRaise(s) ==
    /\ pc[s] = "scraping"
    /\ RunExcept(s, "ExtractionError")
    /\ UNCHANGED <<scraped_movie_data, scraping_logs, now, scraperVars, pages_scraped,
                   records_extracted, outcome, runs, saves, returned, upserted, clientVars, called, locals, connections>>

\* scrape() returns its counters (lines 201-203) and run() calls
\* _update_last_scraped (line 206): the UPDATE commits, or connect, execute or
\* commit raises and nothing was written.
ExtractorReturn(s, db) ==
    /\ pc[s] = "scraping"
    /\ pages_scraped' = [pages_scraped EXCEPT ![s] = self_pages_scraped[s]]
    /\ records_extracted' = [records_extracted EXCEPT ![s] = self_records_extracted[s]]
    /\ IF db = "ok"
       THEN /\ last_scraped' = [last_scraped EXCEPT ![target_id[s]] = now]
            /\ touchedBy' = touchedBy \cup {[pass |-> Pass(s), at |-> now]}
            /\ now' = now + 1
            /\ pc' = [pc EXCEPT ![s] = "log"]
            /\ UNCHANGED <<status, errors>>
       ELSE /\ RunExcept(s, "OperationalError")
            /\ UNCHANGED now
    /\ Connects(FailurePlaces(db))
    /\ UNCHANGED <<scraped_movie_data, scraping_logs, scraperVars, outcome, runs, saves,
                   returned, upserted, clientVars, called, locals>>

\* Mutant: the row holds the counters of the instance.
LogRowOfInstanceCounters(s) ==
    [target_id         |-> target_id[s],
     status            |-> status[s],
     pages_scraped     |-> self_pages_scraped[s],
     records_extracted |-> self_records_extracted[s],
     errors            |-> IF errors[s] # <<>> THEN errors[s] ELSE NULL,
     pass              |-> Pass(s)]

\* The row run() hands to _log_scraping_activity.
LogRow(s) ==
    [target_id         |-> target_id[s],
     status            |-> status[s],
     pages_scraped     |-> pages_scraped[s],
     records_extracted |-> records_extracted[s],
     errors            |-> IF errors[s] # <<>> THEN errors[s] ELSE NULL,
     pass              |-> Pass(s)]

\* The finally block, line 216, and the return of lines 218-225: the mapping
\* returned holds the values of the row logged, and the locals end with the call.
LogScrapingActivity(s, db) ==
    /\ pc[s] = "log"
    /\ LET r == _log_scraping_activity(scraping_logs, LogRow(s), db)
       IN  /\ scraping_logs' = r.logs
           /\ outcome' = [outcome EXCEPT ![s] =
                  IF r.raised = NULL THEN "returned" ELSE "raised"]
           /\ returned' = IF r.raised = NULL THEN returned \cup {Pass(s)} ELSE returned
    /\ pc' = [pc EXCEPT ![s] = "idle"]
    /\ status' = [status EXCEPT ![s] = "success"]
    /\ pages_scraped' = [pages_scraped EXCEPT ![s] = 0]
    /\ records_extracted' = [records_extracted EXCEPT ![s] = 0]
    /\ errors' = [errors EXCEPT ![s] = <<>>]
    /\ Connects(FailurePlaces(db))
    /\ UNCHANGED <<scraped_movie_data, last_scraped, now, scraperVars, runs, saves,
                   touchedBy, upserted, clientVars, called, locals>>

Next ==
    \E s \in Scrapers :
        \/ RunStart(s)
        \/ \E kind \in {"base", "secondary"}, http \in {"ok", "error"} :
               ExtractorFetch(s, kind, http)
        \/ \E data \in RawRecords, db \in {"ok", "connect_fails", "execute_fails"},
              guarded \in BOOLEAN :
               ExtractorSave(s, data, db, guarded)
        \/ \E db \in {"ok", "fails"} : ExtractorReturn(s, db)
        \/ ExtractorRaise(s)
        \/ \E db \in {"ok", "fails"} : LogScrapingActivity(s, db)

Spec == Init /\ [][Next]_vars

\* ------------------------------------------------------ the source clients
Providers == {"OMDB", "TMDb", "YouTube"}

\* The provenance a client gives a result built from its provider's response.
ApiSource(kind) ==
    CASE kind = "OMDB" -> "OMDB API"
      [] kind = "TMDb" -> "TMDb API"
      [] kind = "YouTube" -> "YouTube API"
      [] kind = "Wikipedia" -> "Wikipedia API"

\* f"Scraped from {result.get('source_site', 'Unknown')}"
ScrapedFrom(site) ==
    CASE site = "Wikipedia Box Office" -> "Scraped from Wikipedia Box Office"
      [] site = "Wikipedia Film Hub" -> "Scraped from Wikipedia Film Hub"
      [] OTHER -> "Scraped from Unknown"

\* os.getenv(NAME, ''): unset or empty, blank, set
EnvValues == {"", " ", "key"}

\* str.strip()
strip(s) == IF s = " " THEN "" ELSE s

\* bool(str)
bool(s) == s # ""

\* Mutant: enabled = api_key is not None, which '' satisfies too.
EnabledWhenNotNone(api_key, read_access_token) == TRUE

\* self.enabled, from the stripped credentials
Enabled(api_key, read_access_token) == bool(api_key) \/ bool(read_access_token)

\* A dict display {k: v, .., **mapping, ..}: a key given again keeps its
\* place and takes the later value.
RECURSIVE dict(_)
dict(pairs) ==
    IF Len(pairs) = 0 THEN <<>>
    ELSE LET init == dict(SubSeq(pairs, 1, Len(pairs) - 1))
             last == pairs[Len(pairs)]
         IN  IF Has(init, last[1])
             THEN [i \in DOMAIN init |-> IF init[i][1] = last[1] THEN last ELSE init[i]]
             ELSE Append(init, last)

\* One result mapping with the place it was built from: origin is "api", or
\* "store" with the row of scraped_movie_data.
Entry(mapping, origin, row) == [mapping |-> mapping, origin |-> origin, row |-> row]

\* --- the store as the clients read it
YoutubeLink == "https://youtu.be/dQw4w9WgXcQ"

\* Records scrapers have saved: "up" (2009), "Ups" (2009, box office), "up"
\* without a year, "up" of an adult catalog, "up" with a field named source.
D_up == << <<"title", T_up>>, <<"year", "2009">>, <<"data_type", "film_details">>,
           <<"trailer", YoutubeLink>> >>
D_ups == << <<"title", T_Ups>>, <<"year", "2009">>, <<"data_type", "box_office">> >>
D_up_noyear == << <<"title", T_up>>, <<"data_type", "film_details">> >>
D_up_adult == << <<"title", T_up>>, <<"year", "2009">>, <<"data_type", "adult_content">> >>
D_up_source == << <<"title", T_up>>, <<"year", "2009">>, <<"data_type", "film_details">>,
                  <<"source", "OMDB API">> >>

\* <<target id, record>>
SavedRecords == {<<1, D_up>>, <<1, D_ups>>, <<2, D_up_noyear>>, <<1, D_up_adult>>,
                 <<1, D_up_source>>}

\* A processed_data text that is not a JSON document: "{".
NotJson == << <<"{", "">> >>

\* json.loads(text): the mapping, or JSONDecodeError
json_loads(text) ==
    IF Has(text, "{") THEN [raised |-> "JSONDecodeError", value |-> <<>>]
    ELSE [raised |-> NULL, value |-> text]

\* LOWER(text), on the letters of Titles
LowerChar(c) ==
    CASE c = "U" -> "u" [] c = "P" -> "p" [] c = "S" -> "s" [] c = "M" -> "m"
      [] c = "D" -> "d" [] c = "V" -> "v" [] c = "B" -> "b" [] OTHER -> c

LOWER(text) == [i \in DOMAIN text |-> LowerChar(text[i])]

Contains(text, part) ==
    \E i \in 0..(Len(text) - Len(part)) : SubSeq(text, i + 1, i + Len(part)) = part

\* Mutant: movie_title ILIKE %s with the pattern f"{title}%".
LowerStartsWith(movie_title, title) ==
    /\ Len(title) <= Len(movie_title)
    /\ SubSeq(LOWER(movie_title), 1, Len(title)) = LOWER(title)

\* LOWER(movie_title) = LOWER(%s)
LowerEquals(movie_title, title) == LOWER(movie_title) = LOWER(title)

\* movie_title ILIKE %s with the pattern f"%{query}%", for a query without
\* the wildcards % and _
ILIKE(movie_title, query) == Contains(LOWER(movie_title), LOWER(query))

\* Mutant: AND (year = %s OR year IS NULL).
YearIsOrMissing(row, year) == year = NULL \/ row.year = year \/ row.year = NULL

\* AND year = %s, added when the caller gave a year
YearIs(row, year) == year = NULL \/ row.year = year

\* Mutant: ORDER BY scraped_at, without DESC.
Earliest(rows) == CHOOSE r \in rows : \A q \in rows : r.scraped_at <= q.scraped_at

\* ORDER BY scraped_at DESC LIMIT 1
Latest(rows) == CHOOSE r \in rows : \A q \in rows : q.scraped_at <= r.scraped_at

\* --- try blocks
\* What a try block did: the exception it raised (or NULL), whether it
\* executed a return, the result mappings it returned, whether the value
\* returned is neither None nor empty, whether it reached the store.
Raise(exception, queried) ==
    [raised |-> exception, returned |-> FALSE, entries |-> <<>>, found |-> FALSE,
     queried |-> queried, caught |-> <<>>]

Return(entries, queried) ==
    [raised |-> NULL, returned |-> TRUE, entries |-> entries, found |-> Len(entries) > 0,
     queried |-> queried, caught |-> <<>>]

FallThrough(queried) ==
    [raised |-> NULL, returned |-> FALSE, entries |-> <<>>, found |-> FALSE,
     queried |-> queried, caught |-> <<>>]

\* Mutant: except psycopg2.Error, which lets every other exception pass.
except_psycopg2_Error(try) ==
    IF try.raised \in {"OperationalError", "ProgrammingError"}
    THEN [FallThrough(try.queried) EXCEPT !.caught = <<try.raised>>]
    ELSE try

\* except Exception as e: the handler logs e and the method goes on after the
\* try statement.
except_Exception(try) ==
    IF try.raised # NULL
    THEN [FallThrough(try.queried) EXCEPT !.caught = <<try.raised>>]
    ELSE try

\* --- the fallbacks
\* Mutant: the query names no data_type.
OMDB_any_data_type ==
    {"film_details", "box_office", "award", "adult_content", "general"}

\* OMDBClient._get_from_scraped_data: data_type IN (..)
OMDB_data_types == {"film_details", "box_office", "award"}

\* The try block of OMDBClient._get_from_scraped_data.
ScrapedDataTry(rows, title, year, db) ==
    IF db = "connect_fails" THEN Raise("OperationalError", TRUE)
    ELSE IF db = "query_fails" THEN Raise("ProgrammingError", TRUE)
    ELSE LET matching == {r \in rows : /\ LowerEquals(r.movie_title, title)
                                      /\ YearIs(r, year)
                                      /\ r.data_type \in OMDB_data_types}
         IN  IF matching = {} THEN FallThrough(TRUE)
             ELSE LET result == Latest(matching)
                      processed == json_loads(result.processed_data)
                  IN  IF processed.raised # NULL THEN Raise(processed.raised, TRUE)
                      ELSE Return(<<Entry(dict(<< <<"source", ScrapedFrom(result.source_site)>>,
                                                  <<"title", result.movie_title>>,
                                                  <<"year", result.year>> >>
                                               \o processed.value
                                               \o << <<"scraped_at", result.scraped_at>> >>),
                                          "store", result)>>, TRUE)

_get_from_scraped_data(db_config, rows, title, year, db) ==
    IF db_config = NULL THEN FallThrough(FALSE)
    ELSE except_Exception(ScrapedDataTry(rows, title, year, db))

\* TMDbClient._format_scraped_result
_format_scraped_result(result) ==
    LET processed == json_loads(result.processed_data)
    IN  IF processed.raised # NULL THEN [raised |-> processed.raised, entry |-> NULL]
        ELSE [raised |-> NULL,
              entry |-> Entry(dict(<< <<"source", ScrapedFrom(result.source_site)>>,
                                      <<"title", result.movie_title>>,
                                      <<"year", result.year>> >>
                                   \o processed.value),
                              "store", result)]

\* ORDER BY movie_title, on the titles of the store
TitleOrder == <<Unknown, T_up, T_Ups>>

\* SELECT DISTINCT ON (movie_title) * .. ORDER BY movie_title, scraped_at DESC
\* LIMIT 20, then the list of the formatted rows
FormattedDistinct(matching) ==
    LET titles == SelectSeq(TitleOrder, LAMBDA t : \E r \in matching : r.movie_title = t)
        results == [i \in DOMAIN titles |->
                        Latest({r \in matching : r.movie_title = titles[i]})]
        fetched == SubSeq(results, 1, IF Len(results) < 20 THEN Len(results) ELSE 20)
        formatted == [i \in DOMAIN fetched |-> _format_scraped_result(fetched[i])]
    IN  IF \E i \in DOMAIN formatted : formatted[i].raised # NULL
        THEN Raise("JSONDecodeError", TRUE)
        ELSE Return([i \in DOMAIN formatted |-> formatted[i].entry], TRUE)

\* The try block of TMDbClient._search_scraped_data.
SearchScrapedTry(rows, query, year, db) ==
    IF db = "connect_fails" THEN Raise("OperationalError", TRUE)
    ELSE IF db = "query_fails" THEN Raise("ProgrammingError", TRUE)
    ELSE FormattedDistinct({r \in rows : ILIKE(r.movie_title, query) /\ YearIs(r, year)})

_search_scraped_data(db_config, rows, query, year, db) ==
    IF db_config = NULL THEN FallThrough(FALSE)
    ELSE except_Exception(SearchScrapedTry(rows, query, year, db))

\* year >= EXTRACT(YEAR FROM CURRENT_DATE) - 2, on the years of the store
YearNumber(year) == CASE year = "2009" -> 2009 [] OTHER -> 0

\* The try block of TMDbClient._get_recent_popular_from_scraped.
RecentPopularTry(rows, current_year, db) ==
    IF db = "connect_fails" THEN Raise("OperationalError", TRUE)
    ELSE IF db = "query_fails" THEN Raise("ProgrammingError", TRUE)
    ELSE FormattedDistinct({r \in rows :
                               /\ r.data_type \in {"box_office", "award", "festival_award"}
                               /\ r.year # NULL
                               /\ YearNumber(r.year) >= current_year - 2})

_get_recent_popular_from_scraped(db_config, rows, current_year, db) ==
    IF db_config = NULL THEN FallThrough(FALSE)
    ELSE except_Exception(RecentPopularTry(rows, current_year, db))

\* cursor.execute(query, params) takes every % of the query text for a
\* placeholder: the texts '%youtube%' and '%trailer%' of _get_scraped_trailer
\* ask for parameters the call does not pass, and execute raises.
execute_accepts_bare_percent == FALSE

\* The try block of YouTubeClient._get_scraped_trailer.
ScrapedTrailerTry(rows, movie_title, year, db) ==
    IF db = "connect_fails" THEN Raise("OperationalError", TRUE)
    ELSE IF db = "query_fails" THEN Raise("ProgrammingError", TRUE)
    ELSE IF ~execute_accepts_bare_percent THEN Raise("IndexError", TRUE)
    ELSE LET matching == {r \in rows : /\ LowerEquals(r.movie_title, movie_title)
                                      /\ YearIs(r, year)
                                      /\ Has(r.processed_data, "trailer")}
         IN  IF matching = {} THEN FallThrough(TRUE)
             ELSE LET result == Latest(matching)
                      processed == json_loads(result.processed_data)
                  IN  IF processed.raised # NULL THEN Raise(processed.raised, TRUE)
                      ELSE IF Get(processed.value, "trailer", NULL) # YoutubeLink
                      THEN FallThrough(TRUE)
                      ELSE Return(<<Entry(dict(<< <<"source", ScrapedFrom(result.source_site)>>,
                                                  <<"video_id", "dQw4w9WgXcQ">>,
                                                  <<"title", movie_title \o <<" - Trailer">> >>,
                                                  <<"url", YoutubeLink>>,
                                                  <<"scraped_at", result.scraped_at>> >>),
                                          "store", result)>>, TRUE)

_get_scraped_trailer(db_config, rows, movie_title, year, db) ==
    IF db_config = NULL THEN FallThrough(FALSE)
    ELSE except_Exception(ScrapedTrailerTry(rows, movie_title, year, db))

\* --- the live calls
\* What the request of a lookup meets: a response with the film, a response
\* without results, no response in time, a status that is not 2xx, a body that
\* is not the JSON the client reads.
ApiOutcomes == {"ok", "empty", "timeout", "non2xx", "malformed"}

\* requests.get(.., timeout=..), response.raise_for_status(), response.json()
\* and the reading of the payload: the exception raised, or NULL
Response(api) ==
    CASE api = "timeout" -> "Timeout"
      [] api = "non2xx" -> "HTTPError"
      [] api = "malformed" -> "ValueError"
      [] OTHER -> NULL

\* The film the providers know: "Up", 2009.
ApiMovie == << <<"title", T_Up>>, <<"year", "2009">> >>

\* _format_api_response, _format_movie_result, _format_movie_details and the
\* dict displays of the YouTube and Wikipedia clients
_format_api_response(kind, data) ==
    dict(<< <<"source", ApiSource(kind)>>,
            <<"title", Get(data, "title", NULL)>>,
            <<"year", Get(data, "year", NULL)>> >>)

\* The try block of a lookup.  empty_returns: a response without results makes
\* the block return the empty list (the list operations); otherwise the block
\* ends without a return.
LiveTry(kind, api, empty_returns) ==
    IF Response(api) # NULL THEN Raise(Response(api), FALSE)
    ELSE IF api = "ok"
    THEN Return(<<Entry(_format_api_response(kind, ApiMovie), "api", NULL)>>, FALSE)
    ELSE IF empty_returns THEN Return(<<>>, FALSE)
    ELSE FallThrough(FALSE)

\* The try block of OMDBClient.get_poster: a HEAD request, the URL returned on
\* status 200.
PosterTry(api) ==
    IF api = "timeout" THEN Raise("Timeout", FALSE)
    ELSE IF api = "ok" THEN [Return(<<>>, FALSE) EXCEPT !.found = TRUE]
    ELSE FallThrough(FALSE)

\* A lookup: `if self.enabled: try: <live> except Exception: ..`, then what
\* follows the if statement (`rest`: a fallback, or return None / []).
Lookup(c, op, title, year, api, live, rest) ==
    LET try == IF c.enabled THEN except_Exception(live) ELSE FallThrough(FALSE)
        end == IF try.raised # NULL \/ try.returned THEN try
               ELSE [rest EXCEPT !.caught = try.caught \o rest.caught]
    IN  [op      |-> op,
         title   |-> title,
         year    |-> year,
         api     |-> IF c.enabled THEN api ELSE "not_called",
         calls   |-> IF c.enabled THEN 1 ELSE 0,
         caught  |-> end.caught,
         raised  |-> end.raised,
         store   |-> end.queried,
         entries |-> end.entries,
         found   |-> end.found]

runnerVars == <<scraperVars, runVars, historyVars>>

\* --- construction
\* OMDBClient, TMDbClient, YouTubeClient.__init__
Construct(kind, env_key, env_token, db_config) ==
    /\ client = NoClient
    /\ LET api_key == strip(env_key)
           read_access_token == IF kind = "TMDb" THEN strip(env_token) ELSE ""
       IN  client' = [kind              |-> kind,
                      api_key           |-> api_key,
                      read_access_token |-> read_access_token,
                      enabled           |-> Enabled(api_key, read_access_token),
                      db_config         |-> db_config]
    /\ UNCHANGED <<dbVars, runnerVars, called, locals, connections, lookup>>

\* WikipediaAPI.__init__: no key, no database; is_available() is True.
ConstructWikipedia ==
    /\ client = NoClient
    /\ client' = [kind |-> "Wikipedia", api_key |-> "", read_access_token |-> "",
                  enabled |-> TRUE, db_config |-> NULL]
    /\ UNCHANGED <<dbVars, runnerVars, called, locals, connections, lookup>>

\* --- writers of the store
\* A scraper saves a record (the call of _save_to_database that returns True).
SaveRecord(t, data) ==
    /\ now <= MaxRows
    /\ scraped_movie_data' =
           _save_to_database(scraped_movie_data, TargetName(t), data, "ok", now).rows
    /\ now' = now + 1
    /\ Connects(FailurePlaces("ok"))
    /\ UNCHANGED <<scraping_logs, last_scraped, runnerVars, called, locals, clientVars>>

\* Another writer stores a row whose processed_data is a text that is not JSON.
StoreText ==
    /\ now <= MaxRows
    /\ scraped_movie_data' =
           Upsert(scraped_movie_data,
                  [RowFor(TargetName(1), D_up, now)
                       EXCEPT !.processed_data = NotJson, !.data_hash = sha256(NotJson)])
    /\ now' = now + 1
    /\ UNCHANGED <<scraping_logs, last_scraped, runnerVars, called, locals, connections, clientVars>>

\* --- the lookups
NoTitle == <<>>

OMDB_search_movie(title, year, api, db) ==
    /\ client.kind = "OMDB"
    /\ lookup' = Lookup(client, "OMDBClient.search_movie", title, year, api,
                        LiveTry("OMDB", api, FALSE),
                        _get_from_scraped_data(client.db_config, scraped_movie_data,
                                               title, year, db))
    /\ UNCHANGED <<dbVars, runnerVars, called, locals, connections, client>>

OMDB_get_movie_by_imdb_id(api) ==
    /\ client.kind = "OMDB"
    /\ lookup' = Lookup(client, "OMDBClient.get_movie_by_imdb_id", NoTitle, NULL, api,
                        LiveTry("OMDB", api, FALSE), FallThrough(FALSE))
    /\ UNCHANGED <<dbVars, runnerVars, called, locals, connections, client>>

OMDB_get_poster(api) ==
    /\ client.kind = "OMDB"
    /\ lookup' = Lookup(client, "OMDBClient.get_poster", NoTitle, NULL, api,
                        PosterTry(api), FallThrough(FALSE))
    /\ UNCHANGED <<dbVars, runnerVars, called, locals, connections, client>>

TMDb_search_movies(query, year, api, db) ==
    /\ client.kind = "TMDb"
    /\ lookup' = Lookup(client, "TMDbClient.search_movies", query, year, api,
                        LiveTry("TMDb", api, TRUE),
                        _search_scraped_data(client.db_config, scraped_movie_data,
                                             query, year, db))
    /\ UNCHANGED <<dbVars, runnerVars, called, locals, connections, client>>

TMDb_get_movie_details(api) ==
    /\ client.kind = "TMDb"
    /\ api # "empty"
    /\ lookup' = Lookup(client, "TMDbClient.get_movie_details", NoTitle, NULL, api,
                        LiveTry("TMDb", api, FALSE), FallThrough(FALSE))
    /\ UNCHANGED <<dbVars, runnerVars, called, locals, connections, client>>

TMDb_get_trending_movies(current_year, api, db) ==
    /\ client.kind = "TMDb"
    /\ lookup' = Lookup(client, "TMDbClient.get_trending_movies", NoTitle, NULL, api,
                        LiveTry("TMDb", api, TRUE),
                        _get_recent_popular_from_scraped(client.db_config,
                                                         scraped_movie_data,
                                                         current_year, db))
    /\ UNCHANGED <<dbVars, runnerVars, called, locals, connections, client>>

TMDb_get_recommendations(api) ==
    /\ client.kind = "TMDb"
    /\ lookup' = Lookup(client, "TMDbClient.get_recommendations", NoTitle, NULL, api,
                        LiveTry("TMDb", api, TRUE), FallThrough(FALSE))
    /\ UNCHANGED <<dbVars, runnerVars, called, locals, connections, client>>

YouTube_search_movie_trailer(movie_title, year, api, db) ==
    /\ client.kind = "YouTube"
    /\ lookup' = Lookup(client, "YouTubeClient.search_movie_trailer", movie_title, year,
                        api, LiveTry("YouTube", api, FALSE),
                        _get_scraped_trailer(client.db_config, scraped_movie_data,
                                             movie_title, year, db))
    /\ UNCHANGED <<dbVars, runnerVars, called, locals, connections, client>>

YouTube_get_movie_clips(movie_title, year, api) ==
    /\ client.kind = "YouTube"
    /\ lookup' = Lookup(client, "YouTubeClient.get_movie_clips", movie_title, year, api,
                        LiveTry("YouTube", api, TRUE), FallThrough(FALSE))
    /\ UNCHANGED <<dbVars, runnerVars, called, locals, connections, client>>

YouTube_get_video_details(api) ==
    /\ client.kind = "YouTube"
    /\ lookup' = Lookup(client, "YouTubeClient.get_video_details", NoTitle, NULL, api,
                        LiveTry("YouTube", api, FALSE), FallThrough(FALSE))
    /\ UNCHANGED <<dbVars, runnerVars, called, locals, connections, client>>

\* WikipediaAPI: search_movies, get_film_by_year and get_category_members
\* return lists, get_page_content and get_movie_infobox one mapping or None.
WikipediaOps == {"WikipediaAPI.search_movies", "WikipediaAPI.get_page_content",
                 "WikipediaAPI.get_movie_infobox", "WikipediaAPI.get_film_by_year",
                 "WikipediaAPI.get_category_members"}

Wikipedia_lookup(op, title, api) ==
    /\ client.kind = "Wikipedia"
    /\ lookup' = Lookup(client, op, title, NULL, api,
                        LiveTry("Wikipedia", api, TRUE), FallThrough(FALSE))
    /\ UNCHANGED <<dbVars, runnerVars, called, locals, connections, client>>

QueryTitles == {T_Up, T_Ups}
QueryYears == {NULL, "2009", "2010"}
DbOutcomes == {"ok", "connect_fails", "query_fails"}
CurrentYears == {2011, 2026}

\* The caller takes the result of the lookup.
Deliver ==
    /\ lookup # NoLookup
    /\ lookup' = NoLookup
    /\ UNCHANGED <<dbVars, runnerVars, called, locals, connections, client>>

\* The clients are synchronous: a caller makes one lookup at a time.
NextClient ==
    \/ \E kind \in Providers, env_key \in EnvValues, env_token \in EnvValues,
          db_config \in {NULL, "db"} : Construct(kind, env_key, env_token, db_config)
    \/ ConstructWikipedia
    \/ \E saved \in SavedRecords : SaveRecord(saved[1], saved[2])
    \/ StoreText
    \/ /\ lookup = NoLookup
       /\ \E title \in QueryTitles, year \in QueryYears, api \in ApiOutcomes,
             db \in DbOutcomes :
             \/ OMDB_search_movie(title, year, api, db)
             \/ TMDb_search_movies(title, year, api, db)
             \/ YouTube_search_movie_trailer(title, year, api, db)
             \/ YouTube_get_movie_clips(title, year, api)
             \/ Wikipedia_lookup("WikipediaAPI.search_movies", title, api)
    \/ /\ lookup = NoLookup
       /\ \E api \in ApiOutcomes :
             \/ OMDB_get_movie_by_imdb_id(api)
             \/ OMDB_get_poster(api)
             \/ TMDb_get_movie_details(api)
             \/ TMDb_get_recommendations(api)
             \/ YouTube_get_video_details(api)
             \/ \E current_year \in CurrentYears, db \in DbOutcomes :
                   TMDb_get_trending_movies(current_year, api, db)
             \/ \E op \in WikipediaOps : Wikipedia_lookup(op, T_Up, api)
    \/ Deliver

SpecClient == Init /\ [][NextClient]_vars

\* --------------------------------------------------- the extractor strategies
\* SpecExtract applies the strategies of the scrapers to the elements of a
\* parsed page, one candidate element at a step, with the scraper instance
\* "s1"; the rows they save go to scraped_movie_data.

\* target_config['name'] of the adult catalogs
AdultSites == {"Something Weird Video", "Vinegar Syndrome", "Kimchi DVD",
               "The Movie Room", "Adult Film Archive"}

\* AdultContentScraper.scrape: the variant chosen from the lowered site name
AdultVariant(name) ==
    CASE name = "Something Weird Video" -> "_scrape_something_weird"
      [] name = "Vinegar Syndrome" -> "_scrape_vinegar_syndrome"
      [] name = "Kimchi DVD" -> "_scrape_kimchi_dvd"
      [] name = "The Movie Room" -> "_scrape_movie_room"
      [] OTHER -> "_scrape_generic_adult_site"

\* Texts of title elements: "", "Up", "Ups", "More", "Ups - DVD".
T_empty == <<>>
T_More == <<"M", "o", "r", "e">>
T_Ups_DVD == <<"U", "p", "s", " ", "-", " ", "D", "V", "D">>

\* A product element of a catalog page: the text of its title element (NULL
\* without one), of its price element (NULL without one) and the year its
\* text shows.
Products ==
    [title : {NULL, T_empty, T_Up, T_Ups, T_More, T_Ups_DVD},
     price : {NULL, "$19.99"},
     year  : {"1975"}]

\* The words the Something Weird variant takes for navigation.
GenericWords == {<<"m", "o", "r", "e">>, <<"v", "i", "e", "w">>, <<"b", "u", "y">>}

\* The shortest title a variant keeps.
MinTitleLen(variant) == IF variant = "_scrape_kimchi_dvd" THEN 2 ELSE 3

\* `continue`: the variant passes over the product.
Skips(variant, product) ==
    \/ product.title = NULL
    \/ Len(product.title) < MinTitleLen(variant)
    \/ variant = "_scrape_something_weird" /\ LOWER(product.title) \in GenericWords

\* source_site as the variant writes it into the record
SiteLabel(variant, name) ==
    CASE variant = "_scrape_something_weird" -> "Something Weird Video"
      [] variant = "_scrape_vinegar_syndrome" -> "Vinegar Syndrome"
      [] variant = "_scrape_kimchi_dvd" -> "Kimchi DVD"
      [] variant = "_scrape_movie_room" -> "The Movie Room"
      [] OTHER -> name

\* product_data / movie_data / collection_data / generic_data of the variants
ProductData(variant, name, product) ==
    << <<"data_type", "adult_content">>,
       <<"title", product.title>>,
       <<"source_site", SiteLabel(variant, name)>>,
       <<"age_restriction", "18+">> >>
    \o (IF variant = "_scrape_kimchi_dvd" THEN << <<"region", "Asia">> >> ELSE <<>>)
    \o << <<"url", "base_url">> >>
    \o (IF variant = "_scrape_something_weird" /\ product.price # NULL
        THEN << <<"price", product.price>> >> ELSE <<>>)
    \o (IF variant \in {"_scrape_something_weird", "_scrape_vinegar_syndrome",
                        "_scrape_kimchi_dvd"} /\ product.year # NULL
        THEN << <<"year", product.year>> >> ELSE <<>>)

\* re.sub(r'\s+', ' ', title).strip(), then the suffix ' - DVD..' removed
clean_title(title) == IF title = T_Ups_DVD THEN T_Ups ELSE title

\* Mutant: the normalizer leaves the warning to the page.
Adult_process_data_without_warning(raw_data) ==
    dict(raw_data \o << <<"age_restriction", "18+">> >>)

\* AdultContentScraper._process_data
Adult_process_data(raw_data) ==
    dict(raw_data
         \o << <<"age_restriction", "18+">> >>
         \o (IF Has(raw_data, "title")
             THEN << <<"title", clean_title(Get(raw_data, "title", NULL))>> >> ELSE <<>>)
         \o (IF Has(raw_data, "price")
             THEN << <<"price_numeric", "19.99">> >> ELSE <<>>)
         \o << <<"content_warning", "Adult content - 18+ only">> >>)

\* The row _save_to_database sends for `data` from an AdultContentScraper.
AdultRowFor(name, data, ts) ==
    [RowFor(name, data, ts)
         EXCEPT !.processed_data = json_dumps(Adult_process_data(data), FALSE)]

extractVars == <<scraping_logs, last_scraped, target_id, self_class, target_config, self_pages_scraped, runVars,
                 runs, returned, touchedBy, upserted, clientVars, locals>>

\* ------------------------------------------------ the Wikipedia strategies
WikipediaSites == {"Wikipedia Film Hub", "Wikipedia Film Lists", "Wikipedia Box Office",
                   "Wikipedia Academy Awards", "Wikipedia Film Festivals",
                   "Wikipedia Cinema"}

\* WikipediaScraper.scrape: the strategy chosen from the target's name
WikipediaStrategy(name) ==
    CASE name = "Wikipedia Film Hub" -> "_scrape_film_hub"
      [] name = "Wikipedia Film Lists" -> "_scrape_film_lists"
      [] name = "Wikipedia Box Office" -> "_scrape_box_office"
      [] name = "Wikipedia Academy Awards" -> "_scrape_academy_awards"
      [] name = "Wikipedia Film Festivals" -> "_scrape_film_festivals"
      [] OTHER -> "_scrape_generic_page"

\* An infobox text is the sequence of its words.  The words that
\* r'[\d,]+\.?\d*' matches, a lone comma among them.
NumberWords == {"12", "2.2", "1.5", "1,500", "735,000", ","}

\* re.findall(r'[\d,]+\.?\d*', value)
findall_numbers(value) == SelectSeq(value, LAMBDA w : w \in NumberWords)

\* numbers[0].replace(',', '')
replace_commas(w) ==
    CASE w = "1,500" -> "1500"
      [] w = "735,000" -> "735000"
      [] w = "," -> ""
      [] OTHER -> w

\* word.lower()
lower(w) == IF w = "Million" THEN "million" ELSE IF w = "Billion" THEN "billion" ELSE w

\* 'word' in value.lower()
InLowered(word, value) == \E i \in DOMAIN value : lower(value[i]) = word

\* lines 506-510: the power of ten the amount is multiplied by
money_scale(value) ==
    IF InLowered("million", value) THEN 6
    ELSE IF InLowered("billion", value) THEN 9
    ELSE 0

\* lines 497-514 for one money field: the entry added to the record, none
\* when the text shows no number or float() raises ValueError.  The amount
\* float(n) * 10^k is written <<n, k>>.
money_numeric(field, value) ==
    LET numbers == findall_numbers(value)
    IN  IF numbers = <<>> \/ replace_commas(numbers[1]) = ""
        THEN <<>>
        ELSE << <<field, <<replace_commas(numbers[1]), money_scale(value)>> >> >>

\* int(text) of a run of digits
int(digits) ==
    CASE digits = "142" -> 142
      [] digits = "22" -> 22
      [] digits = "2" -> 2

DigitWords == {"142", "22", "2"}

\* re.search(r'(\d+)\s*min', runtime), lines 517-523: the entry added
runtime_minutes(runtime) ==
    LET hits == {i \in 1..(Len(runtime) - 1) :
                     runtime[i] \in DigitWords /\ runtime[i + 1] \in {"min", "minutes"}}
    IN  IF hits = {} THEN <<>>
        ELSE << <<"runtime_minutes",
                  int(runtime[CHOOSE i \in hits : \A j \in hits : i <= j])>> >>

\* WikipediaScraper._process_data: the text fields of the records of this
\* model are single-spaced already and their year is a number already.
Wikipedia_process_data(raw_data) ==
    dict(raw_data
         \o (IF Has(raw_data, "box_office") /\ Get(raw_data, "box_office", <<>>) # <<>>
             THEN money_numeric("box_office_numeric", Get(raw_data, "box_office", <<>>))
             ELSE <<>>)
         \o (IF Has(raw_data, "budget") /\ Get(raw_data, "budget", <<>>) # <<>>
             THEN money_numeric("budget_numeric", Get(raw_data, "budget", <<>>))
             ELSE <<>>)
         \o (IF Has(raw_data, "runtime") /\ Get(raw_data, "runtime", <<>>) # <<>>
             THEN runtime_minutes(Get(raw_data, "runtime", <<>>))
             ELSE <<>>))

\* The row _save_to_database sends for `data` from a WikipediaScraper.
WikipediaRowFor(name, data, ts) ==
    [RowFor(name, data, ts)
         EXCEPT !.processed_data = json_dumps(Wikipedia_process_data(data), FALSE)]

\* A strategy calls _save_to_database(data) and counts the record; where the
\* call is not inside a try/except an exception of the save leaves the
\* strategy.
StrategySave(s, name, data, row, db) ==
    /\ saves["s1"] + saves["s2"] < MaxExtracted
    /\ saves' = [saves EXCEPT ![s] = @ + 1]
    /\ LET r == _save_to_database(scraped_movie_data, name, data, db, now)
       IN  /\ scraped_movie_data' =
                  IF r.ret = "True" THEN Upsert(scraped_movie_data, row) ELSE scraped_movie_data
           /\ now' = IF r.ret = "True" THEN now + 1 ELSE now
           /\ self_records_extracted' =
                  IF r.raised = NULL
                  THEN [self_records_extracted EXCEPT ![s] = @ + 1]
                  ELSE self_records_extracted
           /\ called' = [op |-> "_save_to_database", name |-> name, data |-> data,
                         ret |-> r.ret, raised |-> r.raised]
    /\ Connects(IF Serializable(data) THEN FailurePlaces(db) ELSE {"before_connect"})
    /\ UNCHANGED extractVars

\* The header rows of the tables of a box-office page.
TableHeaders == {<<"Film", "Gross">>, <<"Gross", "Film">>, <<"Rank", "Gross">>,
                 <<"Film", "2020 gross">>}

\* The text a data row shows under a header.
CellText(header, film) ==
    CASE header = "Film" -> film
      [] header \in {"Gross", "2020 gross"} -> "$735m"
      [] OTHER -> "1"

\* movie_data of _scrape_box_office: one entry per cell, in column order
movie_data(headers, film) ==
    [i \in DOMAIN headers |-> <<headers[i], CellText(headers[i], film)>>]

\* "Up (2009)"
T_Up_2009 == <<"U", "p", " ", "(", "2", "0", "0", "9", ")">>

\* The first match of r'\b(19|20)\d{2}\b' in a header and in the text of a
\* cell, NULL without one.
YearInHeader(header) == IF header = "2020 gross" THEN "2020" ELSE NULL
YearInCell(entry) == IF entry[1] = "Film" /\ entry[2] = T_Up_2009 THEN "2009" ELSE NULL

\* str(movie_data): the keys and the values in insertion order, each key
\* before its value.
str_years(md) ==
    [j \in 1..(2 * Len(md)) |->
        IF j % 2 = 1 THEN YearInHeader(md[(j + 1) \div 2][1]) ELSE YearInCell(md[j \div 2])]

\* re.search(r'\b(19|20)\d{2}\b', str(movie_data)), line 162
search_year(md) ==
    LET years == str_years(md)
        hits == {j \in DOMAIN years : years[j] # NULL}
    IN  IF hits = {} THEN NULL ELSE years[CHOOSE j \in hits : \A k \in hits : j <= k]

\* One data row of a box-office table, lines 144-173: rows without a title
\* are passed over, the save is not guarded.
BoxOfficeRow(headers, film, db) ==
    LET md == movie_data(headers, film)
        title == Get(md, "Film", Get(md, "Title", T_empty))
        data == << <<"data_type", "box_office">>, <<"title", title>>,
                   <<"year", search_year(md)>>, <<"box_office_data", md>> >>
    IN  /\ title # T_empty
        /\ StrategySave("s2", "Wikipedia Box Office", data,
                        WikipediaRowFor("Wikipedia Box Office", data, now), db)

\* One data row of an awards table, lines 194-221, or of a festival table or
\* list, lines 380-430: the text of the first link of the film cell is the
\* title; rows without a link are passed over.
AwardRow(name, year, film_link, db) ==
    LET strategy == WikipediaStrategy(name)
        data == IF strategy = "_scrape_academy_awards"
                THEN << <<"data_type", "award">>, <<"title", film_link>>, <<"year", year>>,
                        <<"award", "Academy Award for Best Picture">>,
                        <<"category", "Winner">>, <<"wikipedia_link", "/wiki/x">> >>
                ELSE << <<"data_type", "festival_award">>, <<"title", film_link>>,
                        <<"year", year>>, <<"festival", "Cannes">>, <<"award", "Palme">>,
                        <<"wikipedia_link", "/wiki/x">> >>
    IN  /\ strategy \in {"_scrape_academy_awards", "_scrape_film_festivals"}
        /\ film_link # NULL
        /\ StrategySave("s2", name, data, WikipediaRowFor(name, data, now), db)

T_List == <<"L", "i", "s", "t">>

\* One linked cell of a list page, lines 352-376, reached from the loop of
\* _scrape_film_lists, which catches what _scrape_film_list raises.
ListEntry(title, year, db) ==
    LET data == << <<"data_type", "film_list_entry">>, <<"title", title>>,
                   <<"list_name", "List of films">>, <<"wikipedia_link", "/wiki/x">> >>
                \o (IF year # NULL THEN << <<"year", year>> >> ELSE <<>>)
    IN  /\ title # T_empty
        /\ title # T_List
        /\ StrategySave("s2", "Wikipedia Film Lists", data,
                        WikipediaRowFor("Wikipedia Film Lists", data, now), db)

\* The overview record of the hub, lines 57-83, the record of a film page,
\* lines 269-332, and of a generic page, lines 453-472: the title is a fixed
\* text or the text of the page's heading.
PageRecord(name, heading, sections, db) ==
    LET strategy == WikipediaStrategy(name)
        data == CASE strategy = "_scrape_film_hub" /\ sections # NULL ->
                         << <<"data_type", "film_overview">>,
                            <<"title", <<"F", "i", "l", "m">> >>,
                            <<"sections", sections>> >>
                  [] strategy = "_scrape_film_hub" /\ sections = NULL ->
                         << <<"data_type", "film_details">>, <<"title", heading>>,
                            <<"url", "/wiki/x">> >>
                  [] OTHER ->
                         << <<"data_type", "wikipedia_content">>,
                            <<"title", IF heading = NULL THEN Unknown ELSE heading>>,
                            <<"url", "base_url">>, <<"content", "text">> >>
    IN  /\ strategy \in {"_scrape_film_hub", "_scrape_generic_page"}
        /\ strategy = "_scrape_film_hub" /\ sections = NULL => heading # NULL
        /\ strategy = "_scrape_generic_page" => sections = NULL
        /\ StrategySave("s2", name, data, WikipediaRowFor(name, data, now), db)


\* One turn of the loop over the products of a catalog page: the record is
\* built, saved and counted; an exception of the save is caught by the loop.
AdultProduct(name, product, db) ==
    /\ ~Skips(AdultVariant(name), product)
    /\ LET data == ProductData(AdultVariant(name), name, product)
       IN  StrategySave("s1", name, data, AdultRowFor(name, data, now), db)

NextExtract ==
    \/ \E name \in AdultSites, product \in Products,
          db \in {"ok", "connect_fails", "execute_fails"} : AdultProduct(name, product, db)
    \/ \E headers \in TableHeaders, film \in {T_empty, T_Up, T_Up_2009} :
          BoxOfficeRow(headers, film, "ok")
    \/ \E name \in WikipediaSites, film_link \in {NULL, T_empty, T_Up} :
          AwardRow(name, "1975", film_link, "ok")
    \/ \E title \in {T_empty, T_List, T_Up} : ListEntry(title, NULL, "ok")
    \/ \E name \in WikipediaSites, heading \in {NULL, T_empty, T_Up},
          sections \in {NULL, << <<"History", "text">> >>} :
              PageRecord(name, heading, sections, "ok")

SpecExtract == Init /\ [][NextExtract]_vars


\* ------------------------------------------------------------ the runner
RowsOf(p) == {i \in DOMAIN scraping_logs : scraping_logs[i].pass = p}

InProgress(s) == pc[s] # "idle"

\* C1: every run() invocation that has returned appended exactly one row to
\* scraping_logs, whether its pass ended 'success' or 'failed': the log holds
\* as many rows as invocations have returned, one for each of them, and a pass
\* still in progress has none yet.
C1_OneLogRowPerRun ==
    /\ Len(scraping_logs) = Cardinality(returned)
    /\ \A p \in returned : Cardinality(RowsOf(p)) = 1
    /\ \A s \in Scrapers : InProgress(s) => RowsOf(Pass(s)) = {}
    /\ \A i \in DOMAIN scraping_logs : scraping_logs[i].status \in {"success", "failed"}

\* Two invocations have returned, one pass 'success' and one 'failed'.
C1_Witness ==
    /\ Cardinality(returned) = 2
    /\ \E i, j \in DOMAIN scraping_logs :
           /\ scraping_logs[i].status = "success"
           /\ scraping_logs[j].status = "failed"

Max(S) == CHOOSE x \in S : \A y \in S : y <= x

\* The times at which the passes of target t changed its last_scraped.
TouchesOf(t) == {e.at : e \in {x \in touchedBy : target_id[x.pass[1]] = t}}

Touched(p) == \E e \in touchedBy : e.pass = p

\* C2: a pass that ends 'failed' leaves last_scraped as it was and records a
\* non-empty errors list, and last_scraped is changed by nothing but a pass
\* that ends 'success': its value is the time of the latest such pass of the
\* target, or it was never set.
C2_FailedPassKeepsLastScraped ==
    /\ \A s \in Scrapers :
           status[s] = "failed" => ~Touched(Pass(s)) /\ errors[s] # <<>>
    /\ \A i \in DOMAIN scraping_logs :
           scraping_logs[i].status = "failed" =>
               /\ ~Touched(scraping_logs[i].pass)
               /\ scraping_logs[i].errors # NULL
               /\ scraping_logs[i].errors # <<>>
    /\ \A t \in TargetIds : last_scraped[t] = Max(TouchesOf(t) \cup {Never})
    /\ \A e \in touchedBy :
           LET s == e.pass[1]
           IN  \/ e.pass = Pass(s) /\ pc[s] = "log" /\ status[s] = "success"
               \/ \E i \in RowsOf(e.pass) : scraping_logs[i].status = "success"
               \/ e.pass \notin returned /\ (e.pass # Pass(s) \/ ~InProgress(s))

\* A pass failed after another pass of the same target had set last_scraped:
\* the failed pass is logged with its error and the timestamp is the earlier one.
C2_Witness ==
    /\ \E i \in DOMAIN scraping_logs :
           /\ scraping_logs[i].status = "failed"
           /\ last_scraped[scraping_logs[i].target_id] # Never
    /\ last_scraped[2] = Never

\* C3: run() never lets an exception escape.
C3_RunNeverRaises == \A s \in Scrapers : outcome[s] # "raised"

\* ---------------------------------------------------------------- upserts
StoredRecords == {d \in RawRecords : Serializable(d)}

\* C4: the store holds exactly one row per unique key saved; saving a record
\* of the same content again adds no row and changes scraped_at only, and
\* records that differ in a field value get different hashes, hence two rows.
C4_UpsertIdempotent ==
    /\ \A r1, r2 \in scraped_movie_data : KeyOf(r1) = KeyOf(r2) => r1 = r2
    /\ {KeyOf(r) : r \in scraped_movie_data} = {u.key : u \in upserted}
    /\ \A r \in scraped_movie_data : \A u \in upserted :
           u.key = KeyOf(r) => [r EXCEPT !.scraped_at = 0] = [u.first EXCEPT !.scraped_at = 0]
    /\ \A d1, d2 \in StoredRecords :
           (ContentOf(d1) = ContentOf(d2)) <=> (data_hash(d1) = data_hash(d2))

\* One scraper saved the same content twice: one row, its timestamp refreshed.
C4_Witness ==
    /\ Cardinality(scraped_movie_data) = 1
    /\ \E u \in upserted : u.ts > u.first.scraped_at /\ Cardinality(u.writers) = 1

\* C5: under every interleaving of the scrapers' upserts the rows are those
\* of the upserts run one after the other in the order they committed: one
\* row per unique key, none missing, scraped_at that of the key's last writer.
C5_ConcurrentUpserts ==
    /\ scraped_movie_data = {[u.first EXCEPT !.scraped_at = u.ts] : u \in upserted}
    /\ Cardinality(scraped_movie_data) = Cardinality(upserted)
    /\ \A r \in scraped_movie_data : r.scraped_at < now

\* Two scrapers, both in the middle of a pass, have upserted the same key.
C5_Witness ==
    /\ \A s \in Scrapers : pc[s] = "scraping"
    /\ \E u \in upserted : u.writers = Scrapers
    /\ Cardinality(scraped_movie_data) = 1

\* ------------------------------------------------------ the source clients
Looked == lookup.op # "none"

HasCredential(c) == c.api_key # "" \/ c.read_access_token # ""

ApiFailed == lookup.api \in {"timeout", "non2xx", "malformed"}

StoreEntries == {i \in DOMAIN lookup.entries : lookup.entries[i].origin = "store"}

\* C6: an OMDBClient, TMDbClient or YouTubeClient constructed with no
\* credential has enabled = false, and keeps it; each of its lookups issues
\* no network call and returns a result built from a store row, or the
\* 'not found' value.
C6_NoCredentialNoNetwork ==
    /\ [](client.kind \in Providers /\ ~HasCredential(client) =>
            /\ ~client.enabled
            /\ Looked =>
                 /\ lookup.calls = 0
                 /\ StoreEntries = DOMAIN lookup.entries
                 /\ lookup.found => lookup.store /\ Len(lookup.entries) > 0)
    /\ [][client.kind \in Providers => client'.enabled = client.enabled]_vars

C6_Witness ==
    /\ client.kind \in Providers
    /\ ~HasCredential(client)
    /\ Looked
    /\ lookup.found
    /\ lookup.entries[1].origin = "store"

\* C7: no lookup of a source client raises to its caller, whatever the live
\* call does (timeout, status not 2xx, malformed payload) and whatever the
\* store query does (connection failure, query failure, processed_data that
\* does not parse): it returns a result or the 'not found' value.
C7_LookupNeverRaises == Looked => lookup.raised = NULL

C7_Witness ==
    /\ Looked
    /\ lookup.raised = NULL
    /\ Len(lookup.caught) = 2
    /\ lookup.caught[1] = "Timeout"
    /\ lookup.caught[2] = "JSONDecodeError"

\* C8: a lookup of a client that is disabled, or whose live call failed,
\* returns 'not found' only after it has queried the store.
C8_NotFoundOnlyAfterStore ==
    (Looked /\ (~client.enabled \/ ApiFailed) /\ ~lookup.found) => lookup.store

\* C9: the source field of every result names its origin: "<Provider> API" for
\* a result built from the live response, "Scraped from <source_site>" with the
\* source_site of the row for a result built from a store row, whatever the
\* row's processed_data holds.
C9_SourceDisclosesOrigin ==
    Looked =>
        \A i \in DOMAIN lookup.entries :
            LET e == lookup.entries[i]
            IN  Get(e.mapping, "source", NULL) =
                    IF e.origin = "api" THEN ApiSource(client.kind)
                    ELSE ScrapedFrom(e.row.source_site)

Candidates(l, rows) ==
    {r \in rows :
        /\ l.year = NULL \/ r.year = l.year
        /\ CASE l.op = "OMDBClient.search_movie" ->
                    /\ LOWER(r.movie_title) = LOWER(l.title)
                    /\ r.data_type \in {"film_details", "box_office", "award"}
             [] l.op = "TMDbClient.search_movies" ->
                    \E k \in 0..(Len(r.movie_title) - Len(l.title)) :
                        SubSeq(LOWER(r.movie_title), k + 1, k + Len(l.title)) = LOWER(l.title)
             [] l.op = "YouTubeClient.search_movie_trailer" ->
                    /\ LOWER(r.movie_title) = LOWER(l.title)
                    /\ \E i \in DOMAIN r.processed_data : r.processed_data[i][1] = "trailer"
             [] OTHER -> FALSE}

\* The rows a lookup just made built its result from.
RowsUsed(l) == {l.entries[i].row : i \in {j \in DOMAIN l.entries : l.entries[j].origin = "store"}}

TitleLookups == {"OMDBClient.search_movie", "TMDbClient.search_movies",
                 "YouTubeClient.search_movie_trailer"}

\* The store query of the lookup l raised.
StoreFailed(l) ==
    \E i \in DOMAIN l.caught :
        l.caught[i] \in {"OperationalError", "ProgrammingError", "JSONDecodeError",
                         "IndexError"}

AdultRows == {r \in scraped_movie_data : r.data_type = "adult_content"}

\* C13 (as claimed): every record of an adult-catalog extractor carries
\* age_restriction = "18+" and a content_warning that is not empty, in its raw
\* form and in its normalized form.
C13_AdultRecordsTagged ==
    \A r \in AdultRows :
        /\ Get(r.raw_data, "age_restriction", NULL) = "18+"
        /\ Get(r.raw_data, "content_warning", "") # ""
        /\ Get(r.processed_data, "age_restriction", NULL) = "18+"
        /\ Get(r.processed_data, "content_warning", "") # ""

\* C13 (amended): the raw form carries age_restriction = "18+"; the normalized
\* form carries age_restriction = "18+" and a content_warning that is not
\* empty.
C13_AdultRecordsTaggedWhenNormalized ==
    \A r \in AdultRows :
        /\ Get(r.raw_data, "age_restriction", NULL) = "18+"
        /\ Get(r.processed_data, "age_restriction", NULL) = "18+"
        /\ Get(r.processed_data, "content_warning", "") # ""

C13_Witness ==
    \E r \in AdultRows :
        /\ r.source_site = "Kimchi DVD"
        /\ ~Has(r.raw_data, "price")
        /\ ~Has(r.raw_data, "content_warning")
        /\ Has(r.processed_data, "content_warning")

\* ------------------------------------------------- fetching and saving
\* The exceptions that ended the passes in progress or logged.
PassErrors ==
    UNION {{errors[s][i] : i \in DOMAIN errors[s]} : s \in Scrapers}
    \cup UNION {IF scraping_logs[i].errors = NULL THEN {}
                ELSE {scraping_logs[i].errors[j] : j \in DOMAIN scraping_logs[i].errors}
                : i \in DOMAIN scraping_logs}

\* C14: the rate-limit step of a page fetch draws its delay and sleeps; it
\* never raises, so no pass ends with the exception of the delay step and the
\* request that follows is issued.
C14_DelayNeverRaises == "AttributeError" \notin PassErrors

\* C15: _save_to_database catches the failure of saving one record (store
\* unreachable, insert rejected, record not serializable) and returns False;
\* no exception leaves it, so no pass is ended by the exception of a record
\* that cannot be serialized.
C15_SaveNeverRaises == "TypeError" \notin PassErrors

\* ------------------------------------------------------ the content hash
\* The field values of a record, nested mappings included, whatever the
\* insertion order of its keys.
DeepContent(d) ==
    {IF d[i][1] \in MappingFields THEN <<d[i][1], ContentOf(d[i][2])>> ELSE d[i]
     : i \in DOMAIN d}

SameFields(name1, d1, name2, d2) == name1 = name2 /\ DeepContent(d1) = DeepContent(d2)

\* C16: two raw records with the same field values have the same content
\* hash, whatever the insertion order of their keys and of the keys of their
\* nested mappings; a record saved again with its keys in another order meets
\* the row it made and the store holds one row per set of field values.
C16_HashIgnoresKeyOrder ==
    /\ \A d1, d2 \in RawRecords :
           ContentOf(d1) = ContentOf(d2) => data_hash(d1) = data_hash(d2)
    /\ called.op = "_save_to_database" =>
           \A r \in scraped_movie_data :
               SameFields(r.source_site, r.raw_data, called.name, called.data)
                   => r.data_hash = data_hash(called.data)
    /\ \A r1, r2 \in scraped_movie_data :
           SameFields(r1.source_site, r1.raw_data, r2.source_site, r2.raw_data) => r1 = r2

\* A box-office row was saved, then saved again from a table whose columns
\* come in the other order; the store holds the one row.
C16_Witness ==
    /\ called.op = "_save_to_database"
    /\ called.ret = "True"
    /\ Cardinality(scraped_movie_data) = 1
    /\ now = 3
    /\ \E r \in scraped_movie_data :
           /\ SameFields(r.source_site, r.raw_data, called.name, called.data)
           /\ Has(called.data, "box_office_data")
           /\ Get(r.raw_data, "box_office_data", NULL)
                  # Get(called.data, "box_office_data", NULL)
           /\ r.scraped_at = 2

\* -------------------------------------------------------- construction
\* The ids a caller may ask for: those of scraping_targets and one more.
RequestedIds == TargetIds \cup {Cardinality(TargetIds) + 1}

\* Mutant: an id without a row yields an empty configuration.
_load_target_config_or_empty(id, db) ==
    IF db = "connect_fails"
    THEN [raised |-> "OperationalError", config |-> NULL]
    ELSE IF id \in TargetIds
    THEN [raised |-> NULL, config |-> TargetRow(id)]
    ELSE [raised |-> NULL, config |-> <<>>]

\* BaseScraper._load_target_config: connect, SELECT .. WHERE id = %s, fetchone
_load_target_config(id, db) ==
    IF db = "connect_fails"
    THEN [raised |-> "OperationalError", config |-> NULL]
    ELSE IF id \in TargetIds
    THEN [raised |-> NULL, config |-> TargetRow(id)]
    ELSE [raised |-> "ValueError", config |-> NULL]

\* s = WikipediaScraper(id, db_config): the name s is bound to the new
\* instance when the constructor returns, and keeps the instance it had when
\* the constructor raises.
WikipediaScraper__init__(s, id, db) ==
    /\ pc[s] = "idle"
    /\ LET c == _load_target_config(id, db)
       IN  /\ called' = [op |-> "__init__", scraper |-> s, target_id |-> id,
                         raised |-> c.raised]
           /\ IF c.raised = NULL
              THEN /\ target_id' = [target_id EXCEPT ![s] = id]
                   /\ self_class' = [self_class EXCEPT ![s] = "WikipediaScraper"]
                   /\ target_config' = [target_config EXCEPT ![s] = c.config]
                   /\ self_pages_scraped' = [self_pages_scraped EXCEPT ![s] = 0]
                   /\ self_records_extracted' = [self_records_extracted EXCEPT ![s] = 0]
              ELSE UNCHANGED scraperVars
    /\ Connects(IF db = "ok" /\ id \notin TargetIds THEN {"not_found"} ELSE FailurePlaces(db))
    /\ UNCHANGED <<dbVars, runVars, historyVars, clientVars, locals>>

\* Scrapers are constructed, run and constructed again; the pages they fetch
\* yield no record.
NextConstruct ==
    \E s \in Scrapers :
        \/ \E id \in RequestedIds, db \in {"ok", "connect_fails"} :
               WikipediaScraper__init__(s, id, db)
        \/ RunStart(s)
        \/ ExtractorReturn(s, "ok")
        \/ LogScrapingActivity(s, "ok")

SpecConstruct == Init /\ [][NextConstruct]_vars

\* C17: the constructor called with a target id that has no row in
\* scraping_targets raises: the caller obtains no instance for that id, so no
\* scraper ever runs for an unknown target, and the attempt leaves the store,
\* the log, last_scraped, the caller's instances and their runs as they were.
C17_UnknownTargetFailsAtConstruction ==
    /\ [](\A s \in Scrapers : target_id[s] \in TargetIds)
    /\ [][called' # called /\ called'.op = "__init__" /\ called'.target_id \notin TargetIds
              => /\ called'.raised # NULL
                 /\ UNCHANGED <<dbVars, scraperVars, runVars, historyVars>>]_vars

\* After a pass that was logged, the constructor was called with an unknown
\* id while the registry could be read.
C17_Witness ==
    /\ called.op = "__init__"
    /\ called.target_id \notin TargetIds
    /\ called.raised = "ValueError"
    /\ scraping_logs # <<>>
    /\ last_scraped[1] # Never

\* ---------------------------------------------------------- fetch errors
\* The caller watches the fetches of a pass: _get_soup(url) for the base URL
\* or for a page followed from it, and the exception it raised.
WatchedFetch(s, kind, http) ==
    /\ FetchPage(s, kind, http)
    /\ called' = [op |-> "_get_soup", scraper |-> s, pass |-> Pass(s), kind |-> kind,
                  raised |-> IF _get_soup(http) = "soup" THEN NULL ELSE _get_soup(http)]

\* Passes of scrapers whose pages yield no record.
NextFetch ==
    \E s \in Scrapers :
        \/ RunStart(s)
        \/ \E kind \in {"base", "secondary"}, http \in {"ok", "error"} :
               WatchedFetch(s, kind, http)
        \/ \E db \in {"ok", "fails"} : ExtractorReturn(s, db)
        \/ \E db \in {"ok", "fails"} : LogScrapingActivity(s, db)

SpecFetch == Init /\ [][NextFetch]_vars

FetchRaised == called.op = "_get_soup" /\ called.raised # NULL

\* C18 (as claimed): an error of the fetch of any page of a pass, the base URL
\* or a page followed from it, aborts the crawl: the pass is logged 'failed'.
C18_FetchErrorAborts ==
    \A i \in DOMAIN scraping_logs :
        FetchRaised /\ scraping_logs[i].pass = called.pass
            => scraping_logs[i].status = "failed"

\* C18 (amended): an exception of the fetch of the base URL ends the pass
\* 'failed'; an exception of the fetch of a page followed from it is caught
\* by the loop over the links, and the pass goes on as it was.
C18_BaseFetchErrorAborts ==
    [][called' # called /\ called'.op = "_get_soup" /\ called'.raised # NULL
           => IF called'.kind = "base"
              THEN /\ status'[called'.scraper] = "failed"
                   /\ pc'[called'.scraper] = "log"
              ELSE UNCHANGED <<dbVars, scraperVars, runVars>>]_vars

\* A pass whose fetch of a followed page raised was logged 'success', and a
\* pass whose fetch of the base URL raised was logged 'failed'.
C18_Witness ==
    /\ FetchRaised
    /\ called.kind = "secondary"
    /\ \E i, j \in DOMAIN scraping_logs :
           /\ scraping_logs[i].pass = called.pass
           /\ scraping_logs[i].status = "success"
           /\ scraping_logs[j].status = "failed"
           /\ scraping_logs[j].errors = <<"AttributeError">>

\* --------------------------------------------------------- stored titles
\* C19: no record with an empty title is passed to the store: every row an
\* extractor strategy writes has a movie_title that is not empty.
C19_NoEmptyTitleStored ==
    \A r \in scraped_movie_data : r.movie_title # T_empty

\* ------------------------------------------------------ counts of a pass
\* The records the log rows of scraper s count, all rows together.
RecordsLogged(s) ==
    SumOver([i \in DOMAIN scraping_logs |-> scraping_logs[i].records_extracted],
            {i \in DOMAIN scraping_logs : scraping_logs[i].pass[1] = s})

\* C20: a log row holds the counts of its own pass alone, also when run() is
\* invoked again on the same instance.  Every record is saved in one pass, so
\* the rows of one scraper together count no more records than the scraper
\* has handed to _save_to_database.
C20_LogRowCountsOnePass ==
    \A s \in Scrapers : RecordsLogged(s) <= saves[s]

\* -------------------------------------------------------- normalization
\* Infobox texts: "$12 million", "$12 Million", "$2.2 billion",
\* "$1.5 billion (1,500 million)", "$735,000", "unknown".
MoneyTexts == {<<"$", "12", "million">>, <<"$", "12", "Million">>,
               <<"$", "2.2", "billion">>,
               <<"$", "1.5", "billion", "(", "1,500", "million", ")">>,
               <<"$", "735,000">>, <<"unknown">>}

\* "142 min", "142 minutes", "2 h 22 min", "long"
RuntimeTexts == {<<"142", "min">>, <<"142", "minutes">>, <<"2", "h", "22", "min">>,
                   <<"long">>}

\* The records of film pages: the fields the infobox shows.
FilmRecords ==
    {<< <<"data_type", "film_details">>, <<"title", T_Up>> >> \o bo \o bu \o rt :
        bo \in {<<>>} \cup {<< <<"box_office", t>> >> : t \in MoneyTexts},
        bu \in {<<>>} \cup {<< <<"budget", t>> >> : t \in MoneyTexts},
        rt \in {<<>>} \cup {<< <<"runtime", t>> >> : t \in RuntimeTexts}}

\* _save_to_database normalizes a record: self._process_data(data), line 115.
ProcessData(raw_data) ==
    /\ called' = [op |-> "_process_data", raw_data |-> raw_data,
                  processed |-> Wikipedia_process_data(raw_data)]
    /\ UNCHANGED <<dbVars, scraperVars, runVars, historyVars, clientVars, locals, connections>>

NextNormalize == \E raw_data \in FilmRecords : ProcessData(raw_data)

SpecNormalize == Init /\ [][NextNormalize]_vars

\* The number a money text leads with and the word after it.
LeadsWith(value, n, word) ==
    Len(value) >= 3 /\ value[1] = "$" /\ value[2] = n /\ lower(value[3]) = word

NumericOf(field) == Get(called.processed, field, <<>>)

\* C21: normalization turns a runtime "<n> min" into runtime_minutes = n and
\* a money text whose leading number n is followed by "million" (by
\* "billion") into <field>_numeric = n * 10^6 (n * 10^9), for every such
\* text, those holding both words included.
C21_NormalizesRuntimeAndMoney ==
    called.op = "_process_data" =>
        /\ Get(called.raw_data, "runtime", <<>>) = <<"142", "min">>
               => Has(called.processed, "runtime_minutes")
                  /\ Get(called.processed, "runtime_minutes", 0) = 142
        /\ \A field \in {"box_office", "budget"} : \A n \in {"12", "2.2", "1.5"} :
               LET value == Get(called.raw_data, field, <<>>)
                   numeric == IF field = "budget" THEN "budget_numeric"
                              ELSE "box_office_numeric"
               IN  /\ LeadsWith(value, n, "million") => NumericOf(numeric) = <<n, 6>>
                   /\ LeadsWith(value, n, "billion") => NumericOf(numeric) = <<n, 9>>

\* ------------------------------------------------- titles of adult records
\* C22: no adult-catalog variant persists a record whose title is one of the
\* generic words "more", "view", "buy", in any case of letters, or is shorter
\* than the variant's minimum length.
C22_NoGenericOrShortTitle ==
    \A r \in AdultRows :
        /\ LOWER(r.movie_title) \notin GenericWords
        /\ Len(r.movie_title) >= MinTitleLen(AdultVariant(r.source_site))

\* ------------------------------------------------------ caps of a pass
\* film_links[:10], list_links[:20], films_found >= 50
HubLinkCap == 10
ListLinkCap == 20
ListEntryCap == 50

Min(a, b) == IF a <= b THEN a ELSE b

\* The record of a film page and the entry of a list page.
FilmPageData == << <<"data_type", "film_details">>, <<"title", T_Up>>, <<"url", "/wiki/x">> >>
ListEntryData == << <<"data_type", "film_list_entry">>, <<"title", T_Up>>,
                    <<"list_name", "List of films">>, <<"wikipedia_link", "/wiki/x">> >>
OverviewData == << <<"data_type", "film_overview">>, <<"title", <<"F", "i", "l", "m">> >>,
                   <<"sections", <<>> >> >>

\* n records `data` saved one after the other, the store accepting each.
SavedTimes(s, name, data, n) ==
    /\ scraped_movie_data' =
           IF n = 0 THEN scraped_movie_data
           ELSE Upsert(scraped_movie_data, WikipediaRowFor(name, data, now + n - 1))
    /\ now' = now + n
    /\ self_records_extracted' = [self_records_extracted EXCEPT ![s] = @ + n]
    /\ connections' = connections + n * LeftOpen("none")

capsVars == <<scraping_logs, last_scraped, target_id, self_class, target_config, runVars, historyVars, clientVars,
              called>>

\* The strategy of a pass reads the page of the base URL that _get_soup
\* returned: _scrape_film_hub saves the overview and keeps the first 10 film
\* links, lines 52-89; _scrape_film_lists keeps the first 20 list links,
\* lines 102-111.
BasePage(s, strategy, links) ==
    /\ pc[s] = "scraping"
    /\ locals.pass # Pass(s)
    /\ locals.strategy \in {"none", strategy}
    /\ self_pages_scraped' = [self_pages_scraped EXCEPT ![s] = @ + 1]
    /\ IF strategy = "_scrape_film_hub"
       THEN /\ SavedTimes(s, "Wikipedia Film Hub", OverviewData, 1)
            /\ locals' = [strategy |-> strategy, pass |-> Pass(s),
                          links |-> Min(links, HubLinkCap), done |-> 0]
       ELSE /\ SavedTimes(s, "Wikipedia Film Lists", ListEntryData, 0)
            /\ locals' = [strategy |-> strategy, pass |-> Pass(s),
                          links |-> Min(links, ListLinkCap), done |-> 0]
    /\ UNCHANGED capsVars

\* for cell in cells .. films_found += 1; if films_found >= 50: return
RECURSIVE films_found(_, _)
films_found(entries, found) ==
    IF entries = 0 THEN found
    ELSE IF found + 1 >= ListEntryCap THEN found + 1
    ELSE films_found(entries - 1, found + 1)

\* One turn of the loop over the links kept: _scrape_film_page(link), lines
\* 263-332, or _scrape_film_list(url, title), lines 334-376, on the page
\* _get_soup returned, or the exception of the call, caught by the loop.
FollowLink(s, result, entries) ==
    /\ pc[s] = "scraping"
    /\ locals.pass = Pass(s)
    /\ locals.done < locals.links
    /\ locals' = [locals EXCEPT !.done = @ + 1]
    /\ IF result = "raises"
       THEN UNCHANGED <<scraped_movie_data, now, self_pages_scraped, self_records_extracted,
                        connections>>
       ELSE /\ self_pages_scraped' = [self_pages_scraped EXCEPT ![s] = @ + 1]
            /\ IF locals.strategy = "_scrape_film_hub"
               THEN SavedTimes(s, "Wikipedia Film Hub", FilmPageData, 1)
               ELSE SavedTimes(s, "Wikipedia Film Lists", ListEntryData,
                               films_found(entries, 0))
    /\ UNCHANGED capsVars

\* The loop over the links is done and the strategy returns its counters.
StrategyReturn(s) ==
    /\ locals.pass = Pass(s)
    /\ locals.done = locals.links
    /\ ExtractorReturn(s, "ok")

\* The passes of one hub or film-lists scraper.
NextCaps ==
    \/ RunStart("s1")
    \/ \E strategy \in {"_scrape_film_hub", "_scrape_film_lists"},
          links \in {0, ListLinkCap + 2} : BasePage("s1", strategy, links)
    \/ \E result \in {"page", "raises"} : FollowLink("s1", result, ListEntryCap + 10)
    \/ StrategyReturn("s1")
    \/ LogScrapingActivity("s1", "ok")

SpecCaps == Init /\ [][NextCaps]_vars

\* C23: a pass is bounded by its caps: a hub pass follows at most 10 links, a
\* film-lists pass opens at most 20 list pages and saves at most 50 entries of
\* each, and the pages_scraped and records_extracted logged for a pass are
\* within the bounds the caps imply.
C23_PassWithinCaps ==
    /\ locals.strategy = "_scrape_film_hub" => locals.links <= HubLinkCap
    /\ locals.strategy = "_scrape_film_lists" => locals.links <= ListLinkCap
    /\ \A i \in DOMAIN scraping_logs :
           /\ locals.strategy = "_scrape_film_hub" =>
                  /\ scraping_logs[i].pages_scraped <= HubLinkCap + 1
                  /\ scraping_logs[i].records_extracted <= HubLinkCap + 1
           /\ locals.strategy = "_scrape_film_lists" =>
                  /\ scraping_logs[i].pages_scraped <= ListLinkCap + 1
                  /\ scraping_logs[i].records_extracted <= ListLinkCap * ListEntryCap

\* ------------------------------------------------- the box-office record
BoxOfficeRows == {r \in scraped_movie_data : r.data_type = "box_office"}

\* The first year the texts of the cells of a row show, NULL without one.
FirstYearOfCells(md) ==
    LET hits == {i \in DOMAIN md : YearInCell(md[i]) # NULL}
    IN  IF hits = {} THEN NULL ELSE YearInCell(md[CHOOSE i \in hits : \A k \in hits : i <= k])

\* C24: the record of a box-office row maps each header to the text of the
\* cell below it, its title is the text of the Film cell, and its year is the
\* first year the texts of the cells show, none if they show none: headers
\* and link URLs do not influence it.
C24_BoxOfficeRecord ==
    \A r \in BoxOfficeRows :
        LET md == Get(r.raw_data, "box_office_data", <<>>)
        IN  /\ \A i \in DOMAIN md : md[i][2] = CellText(md[i][1], r.movie_title)
            /\ r.movie_title = Get(md, "Film", T_empty)
            /\ r.movie_title # T_empty
            /\ r.year = FirstYearOfCells(md)

\* ------------------------------------------------- a pass that fails mid-way
\* The exceptions only the extractor raises.
ExtractorErrors == {"ExtractionError", "TypeError", "AttributeError"}

\* C25: a pass the extractor ends by raising is logged, and returned by
\* run(), with pages_scraped = 0 and records_extracted = 0, also when it had
\* persisted records; these stay in the store: no row is ever removed.
C25_FailedPassCountsNothing ==
    /\ [](\A i \in DOMAIN scraping_logs :
              /\ scraping_logs[i].status = "failed"
              /\ scraping_logs[i].errors[1] \in ExtractorErrors
              => /\ scraping_logs[i].pages_scraped = 0
                 /\ scraping_logs[i].records_extracted = 0)
    /\ [][{KeyOf(r) : r \in scraped_movie_data}
              \subseteq {KeyOf(r) : r \in scraped_movie_data'}]_vars

\* The first pass of s1 saved a record, the extractor raised, the pass was
\* logged 'failed' and run() returned; the record is in the store.
C25_Witness ==
    /\ runs["s1"] = 1 /\ runs["s2"] = 0
    /\ self_records_extracted["s1"] = 1
    /\ scraped_movie_data # {}
    /\ <<"s1", 1>> \in returned
    /\ \E i \in DOMAIN scraping_logs :
           /\ scraping_logs[i].pass = <<"s1", 1>>
           /\ scraping_logs[i].status = "failed"
           /\ scraping_logs[i].errors = <<"ExtractionError">>
           /\ scraping_logs[i].records_extracted = 0

\* ------------------------------------------------ what the counter counts
\* C26: records_extracted counts the calls of _save_to_database, whatever
\* they returned: the row of the first pass of an instance, when the pass
\* succeeded, holds the number of save calls the instance made, which is at
\* least the number of rows it inserted or refreshed.
C26_CountsSaveCalls ==
    \A s \in Scrapers : \A i \in DOMAIN scraping_logs :
        /\ runs[s] = 1
        /\ scraping_logs[i].pass = <<s, 1>>
        /\ scraping_logs[i].status = "success"
        => /\ scraping_logs[i].records_extracted = saves[s]
           /\ scraping_logs[i].records_extracted
                  >= Cardinality({u \in upserted : s \in u.writers})

\* ------------------------------------------- what OMDBClient may disclose
\* C27: a result OMDBClient builds from the store comes from a row whose
\* data_type is film_details, box_office or award; a row of another
\* data_type, adult_content in particular, is never returned.
C27_OMDBFallbackDataTypes ==
    lookup.op \in {"OMDBClient.search_movie", "OMDBClient.get_movie_by_imdb_id",
                   "OMDBClient.get_poster"}
        => \A used \in RowsUsed(lookup) :
               used.data_type \in {"film_details", "box_office", "award"}

\* search_movie answered from the store while the store held an adult row
\* of the same title and year, saved later than the row used.
C27_Witness ==
    /\ lookup.op = "OMDBClient.search_movie"
    /\ \E used \in RowsUsed(lookup) : \E r \in scraped_movie_data :
           /\ used \in scraped_movie_data
           /\ r.data_type = "adult_content"
           /\ LOWER(r.movie_title) = LOWER(lookup.title)
           /\ r.year = used.year
           /\ r.scraped_at > used.scraped_at

\* ----------------------------------------------- the age check of a target
\* What the scraping_rules column of a target's row may hold: the column
\* missing from the row, NULL, an empty mapping, a mapping without the field,
\* with another rating, and with "18+".
RulesColumns ==
    << <<>>,
       << <<"scraping_rules", NULL>> >>,
       << <<"scraping_rules", <<>> >> >>,
       << <<"scraping_rules", << <<"content_warning", "explicit">> >> >> >>,
       << <<"scraping_rules", << <<"age_restriction", "R">> >> >> >>,
       << <<"scraping_rules", << <<"age_restriction", "18+">> >> >> >> >>

\* The row scraping_targets holds for the target of an adult catalog.
AdultTargetRow(rules) == << <<"name", "Vinegar Syndrome">> >> \o rules

\* Mutant: only a rating other than "18+" is refused.
AgeVerificationOfNamedRating(config) ==
    LET scraping_rules == Get(config, "scraping_rules", <<>>)
    IN  IF scraping_rules = NULL THEN "AttributeError"
        ELSE IF Get(scraping_rules, "age_restriction", "18+") # "18+" THEN "ValueError"
        ELSE NULL

\* Lines 25-27 of AdultContentScraper.__init__: the exception raised, or NULL.
AgeVerification(config) ==
    LET scraping_rules == Get(config, "scraping_rules", <<>>)
    IN  IF scraping_rules = NULL THEN "AttributeError"
        ELSE IF Get(scraping_rules, "age_restriction", NULL) # "18+" THEN "ValueError"
        ELSE NULL

\* s = AdultContentScraper(id, db_config) while scraping_targets holds `row`
\* for id: BaseScraper.__init__ loads the row, the counters are set and the
\* age check runs; s keeps the instance it had when the constructor raises.
AdultContentScraper__init__(s, id, row, db) ==
    /\ pc[s] = "idle"
    /\ LET c == _load_target_config(id, db)
           raised == IF c.raised # NULL THEN c.raised ELSE AgeVerification(row)
       IN  /\ called' = [op |-> "__init__", class |-> "AdultContentScraper", scraper |-> s,
                         target_id |-> id,
                         config |-> IF c.raised = NULL THEN row ELSE NULL,
                         raised |-> raised]
           /\ IF raised = NULL
              THEN /\ target_id' = [target_id EXCEPT ![s] = id]
                   /\ self_class' = [self_class EXCEPT ![s] = "AdultContentScraper"]
                   /\ target_config' = [target_config EXCEPT ![s] = row]
                   /\ self_pages_scraped' = [self_pages_scraped EXCEPT ![s] = 0]
                   /\ self_records_extracted' = [self_records_extracted EXCEPT ![s] = 0]
              ELSE UNCHANGED scraperVars
    /\ Connects(IF db = "ok" /\ id \notin TargetIds THEN {"not_found"} ELSE FailurePlaces(db))
    /\ UNCHANGED <<dbVars, runVars, historyVars, clientVars, locals>>

\* One product of the catalog page of a pass of an AdultContentScraper.
AdultScraperProduct(s, product, db) ==
    /\ pc[s] = "scraping"
    /\ self_class[s] = "AdultContentScraper"
    /\ LET name == Get(target_config[s], "name", NULL)
           data == ProductData(AdultVariant(name), name, product)
       IN  /\ ~Skips(AdultVariant(name), product)
           /\ StrategySave(s, name, data, AdultRowFor(name, data, now), db)

\* Adult scrapers are constructed and run by a caller that holds one instance.
NextAdult ==
    LET s == "s1"
    IN  \/ \E id \in RequestedIds, i \in DOMAIN RulesColumns, db \in {"ok", "connect_fails"} :
               AdultContentScraper__init__(s, id, AdultTargetRow(RulesColumns[i]), db)
        \/ self_class[s] = "AdultContentScraper" /\ RunStart(s)
        \/ \E http \in {"ok", "error"} : ExtractorFetch(s, "base", http)
        \/ \E title \in {T_empty, T_Ups} :
               AdultScraperProduct(s, [title |-> title, price |-> NULL, year |-> "1975"], "ok")
        \/ ExtractorReturn(s, "ok")
        \/ LogScrapingActivity(s, "ok")

SpecAdult == Init /\ [][NextAdult]_vars

\* The target's row carries scraping_rules with age_restriction "18+".
Flagged(config) ==
    /\ Has(config, "scraping_rules")
    /\ Get(config, "scraping_rules", NULL) # NULL
    /\ Has(Get(config, "scraping_rules", NULL), "age_restriction")
    /\ Get(Get(config, "scraping_rules", NULL), "age_restriction", NULL) = "18+"

\* C28: AdultContentScraper(id, db_config) raises for a target whose row is
\* not flagged "18+" (column missing, NULL, empty, field absent, other
\* rating) and leaves the caller's instances, the store and the runs as they
\* were; every AdultContentScraper instance, hence every pass that fetches or
\* stores for an adult catalog, belongs to a flagged target.
C28_AdultOnlyForFlaggedTargets ==
    /\ [](\A s \in Scrapers :
              self_class[s] = "AdultContentScraper" => Flagged(target_config[s]))
    /\ [](\A s \in Scrapers : pc[s] # "idle" => Flagged(target_config[s]))
    /\ [][called' # called /\ called'.op = "__init__" /\ called'.config # NULL
              /\ ~Flagged(called'.config)
              => /\ called'.raised # NULL
                 /\ UNCHANGED <<dbVars, scraperVars, runVars, historyVars>>]_vars
    /\ [][called' # called /\ called'.op = "_save_to_database"
              => \E s \in Scrapers : /\ saves'[s] # saves[s]
                                     /\ Flagged(target_config[s])]_vars

\* An adult scraper constructed for a flagged target has stored a record and
\* logged its pass, and the constructor then refused a row without the field.
C28_Witness ==
    /\ called.op = "__init__"
    /\ called.config # NULL
    /\ Has(called.config, "scraping_rules")
    /\ Get(called.config, "scraping_rules", NULL) # NULL
    /\ ~Has(Get(called.config, "scraping_rules", NULL), "age_restriction")
    /\ called.raised = "ValueError"
    /\ \E r \in scraped_movie_data : r.data_type = "adult_content"
    /\ scraping_logs # <<>>
    /\ self_class[called.scraper] = "AdultContentScraper"

\* ------------------------------------------- a live call without a result
\* The fallback of the lookup handed its statement to the store: it had a
\* db_config and execute did not raise on the statement's text.
QuerySent(l) ==
    /\ l.store
    /\ \A i \in DOMAIN l.caught : l.caught[i] # "IndexError"

\* C29: when the live call of OMDBClient.search_movie or of
\* YouTubeClient.search_movie_trailer comes back without a usable result
\* (Response not 'True', no items) the lookup queries the store, and when the
\* live call yielded a result the store is not queried.
C29_NoResultQueriesStore ==
    (/\ lookup.op \in {"OMDBClient.search_movie", "YouTubeClient.search_movie_trailer"}
     /\ client.enabled
     /\ lookup.api \in {"ok", "empty"})
        => (QuerySent(lookup) <=> lookup.api = "empty")

\* ------------------------------------------------------ store connections
\* One caller constructs a scraper, runs it and constructs it again, while
\* the database accepts or refuses each operation.
NextConnections ==
    LET s == "s1"
    IN  \/ \E id \in RequestedIds, db \in {"ok", "connect_fails"} :
               WikipediaScraper__init__(s, id, db)
        \/ RunStart(s)
        \/ \E data \in {R_up, R_tag}, db \in {"ok", "connect_fails", "execute_fails"},
              guarded \in BOOLEAN :
               ExtractorSave(s, data, db, guarded)
        \/ \E db \in {"ok", "fails"} : ExtractorReturn(s, db)
        \/ \E db \in {"ok", "fails"} : LogScrapingActivity(s, db)

SpecConnections == Init /\ [][NextConnections]_vars

\* C30: _load_target_config, _save_to_database, _log_scraping_activity and
\* _update_last_scraped close the connection they opened before they return
\* or raise: after any sequence of these operations, failed ones included,
\* no connection of theirs is open.
C30_NoConnectionLeftOpen == connections = 0

\* A pass whose save and whose timestamp update failed was logged as failed,
\* and the constructor then found no row for the id asked for.
C30_Witness ==
    /\ connections = 0
    /\ called.op = "__init__"
    /\ called.raised = "ValueError"
    /\ saves["s1"] > self_records_extracted["s1"]
    /\ \E i \in DOMAIN scraping_logs : scraping_logs[i].status = "failed"

====
